------------------------------ MODULE Spec2Model ------------------------------
(***************************************************************************)
(* fft (Find File Type): the detection pipeline of FileTypeDetector        *)
(* (src/src/fft/detector.py) as a state machine.                           *)
(*                                                                         *)
(* One call of detect_file_type is followed stage by stage: the existence  *)
(* check, _filesystem_tests, _magic_tests, _language_tests and the final   *)
(* fallback.  Strings the code inspects character by character (file       *)
(* names, suffixes, the signature description) are sequences of            *)
(* one-character strings, so that lower-casing, suffix decomposition,      *)
(* concatenation and substring search are computed as the code computes    *)
(* them.  Confidences are held in tenths: 0.8 is 8, min(score/10, 1.0) is  *)
(* min(score, 10).                                                         *)
(*                                                                         *)
(* Spec follows one caller: a call, and a second call on the same path.    *)
(* SpecShared follows several threads whose calls on one detector          *)
(* interleave stage by stage.  SpecCli follows a run of the command line   *)
(* (src/src/fft/cli.py): walk_paths and the file loop of main.             *)
(***************************************************************************)
EXTENDS Integers, Sequences, FiniteSets, TLC

VARIABLES
  magic,    \* self._magic: "unset" before __init__, then "none" or "Magic"
  pc,       \* where the current detect_file_type call stands
  world,    \* the filesystem entry, its content and the signature service's answer
  result,   \* the DetectionResult the call returned, NoResult before that
  stages,   \* the stages the call has run, in order, each with what it returned
  io,       \* the system and service calls the call has made, in order
  previous, \* what the call before this one on the same path gave, if there was one
  inflight, \* the calls of the threads that share the detector, one per thread
  cli       \* a run of the command line: options, paths, counters and output

vars == <<magic, pc, world, result, stages, io, previous, inflight, cli>>

-----------------------------------------------------------------------------
(* Bounds of the model.                                                    *)

\* The number of threads that call one detector at the same time.
MaxThreads == 2

\* A file name is a stem followed by at most MaxSuffixes dot-separated parts.
MaxSuffixes == 3

\* A signature description is at most MaxDescWords words.
MaxDescWords == 2

\* A text matches at most MaxHits of the catalog's regular expressions.
MaxHits == 2

-----------------------------------------------------------------------------
(* Strings as sequences of characters.                                     *)

UpperChars == <<"A","B","C","D","E","F","G","H","I","J","K","L","M",
                "N","O","P","Q","R","S","T","U","V","W","X","Y","Z">>

LowerChars == <<"a","b","c","d","e","f","g","h","i","j","k","l","m",
                "n","o","p","q","r","s","t","u","v","w","x","y","z">>

\* str.lower() of one character.
lower_char(c) ==
  IF \E k \in 1..Len(UpperChars) : UpperChars[k] = c
    THEN LowerChars[CHOOSE k \in 1..Len(UpperChars) : UpperChars[k] = c]
    ELSE c

\* A faulty variant of lower: the string is compared as it is.
lower_kept(s) == s

\* str.lower().
lower(s) == [i \in 1..Len(s) |-> lower_char(s[i])]

\* Python's `sub in s` for strings.
contains(sub, s) ==
  \E i \in 1..(Len(s) - Len(sub) + 1) : SubSeq(s, i, i + Len(sub) - 1) = sub

\* str.startswith.
startswith(s, prefix) ==
  Len(prefix) <= Len(s) /\ SubSeq(s, 1, Len(prefix)) = prefix

RECURSIVE join(_)
\* "".join(parts).
join(parts) == IF parts = <<>> THEN <<>> ELSE Head(parts) \o join(Tail(parts))

RECURSIVE lstrip(_, _)
\* str.lstrip(c).
lstrip(s, c) == IF s # <<>> /\ Head(s) = c THEN lstrip(Tail(s), c) ELSE s

RECURSIVE split(_, _)
\* str.split(c): the parts between the occurrences of c ("" gives one empty part).
split(s, c) ==
  IF \A i \in 1..Len(s) : s[i] # c
    THEN <<s>>
    ELSE LET i == CHOOSE j \in 1..Len(s) : s[j] = c /\ \A k \in 1..(j - 1) : s[k] # c
         IN  <<SubSeq(s, 1, i - 1)>> \o split(SubSeq(s, i + 1, Len(s)), c)

\* str.rfind(c), counted from 1; 0 when c does not occur.
rfind(s, c) ==
  IF \A i \in 1..Len(s) : s[i] # c
    THEN 0
    ELSE CHOOSE i \in 1..Len(s) : s[i] = c /\ \A k \in (i + 1)..Len(s) : s[k] # c

\* pathlib's PurePath.suffix of the final path component.
suffix(name) ==
  LET i == rfind(name, ".")
  IN  IF 1 < i /\ i < Len(name) THEN SubSeq(name, i, Len(name)) ELSE <<>>

\* pathlib's PurePath.suffixes of the final path component.
suffixes(name) ==
  IF name # <<>> /\ name[Len(name)] = "."
    THEN <<>>
    ELSE LET parts == split(lstrip(name, "."), ".")
         IN  [k \in 1..(Len(parts) - 1) |-> <<".">> \o parts[k + 1]]

last_two(sfx) == SubSeq(sfx, Len(sfx) - 1, Len(sfx))

-----------------------------------------------------------------------------
(* The static tables, built once by __init__.                              *)

\* _build_extension_map: the suffix -> FileType dictionary, in source order.
ExtensionEntries ==
  <<
    <<<<".","p","y">>, "PYTHON">>,
    <<<<".","j","s">>, "JAVASCRIPT">>,
    <<<<".","t","s">>, "TYPESCRIPT">>,
    <<<<".","j","a","v","a">>, "JAVA">>,
    <<<<".","c">>, "C">>,
    <<<<".","c","p","p">>, "CPP">>,
    <<<<".","c","x","x">>, "CPP">>,
    <<<<".","c","c">>, "CPP">>,
    <<<<".","h">>, "C">>,
    <<<<".","h","p","p">>, "CPP">>,
    <<<<".","r","s">>, "RUST">>,
    <<<<".","g","o">>, "GO">>,
    <<<<".","p","h","p">>, "PHP">>,
    <<<<".","r","b">>, "RUBY">>,
    <<<<".","s","h">>, "SHELL">>,
    <<<<".","b","a","s","h">>, "SHELL">>,
    <<<<".","z","s","h">>, "SHELL">>,
    <<<<".","f","i","s","h">>, "SHELL">>,
    <<<<".","p","s","1">>, "POWERSHELL">>,
    <<<<".","b","a","t">>, "BATCH">>,
    <<<<".","c","m","d">>, "BATCH">>,
    <<<<".","h","t","m","l">>, "HTML">>,
    <<<<".","h","t","m">>, "HTML">>,
    <<<<".","c","s","s">>, "CSS">>,
    <<<<".","x","m","l">>, "XML">>,
    <<<<".","j","s","o","n">>, "JSON">>,
    <<<<".","y","a","m","l">>, "YAML">>,
    <<<<".","y","m","l">>, "YAML">>,
    <<<<".","p","d","f">>, "PDF">>,
    <<<<".","d","o","c">>, "WORD">>,
    <<<<".","d","o","c","x">>, "WORD">>,
    <<<<".","x","l","s">>, "EXCEL">>,
    <<<<".","x","l","s","x">>, "EXCEL">>,
    <<<<".","p","p","t">>, "POWERPOINT">>,
    <<<<".","p","p","t","x">>, "POWERPOINT">>,
    <<<<".","t","x","t">>, "TEXT">>,
    <<<<".","m","d">>, "MARKDOWN">>,
    <<<<".","m","a","r","k","d","o","w","n">>, "MARKDOWN">>,
    <<<<".","j","p","g">>, "JPEG">>,
    <<<<".","j","p","e","g">>, "JPEG">>,
    <<<<".","p","n","g">>, "PNG">>,
    <<<<".","g","i","f">>, "GIF">>,
    <<<<".","s","v","g">>, "SVG">>,
    <<<<".","t","i","f">>, "TIFF">>,
    <<<<".","t","i","f","f">>, "TIFF">>,
    <<<<".","b","m","p">>, "BMP">>,
    <<<<".","w","e","b","p">>, "WEBP">>,
    <<<<".","m","p","3">>, "MP3">>,
    <<<<".","m","p","4">>, "MP4">>,
    <<<<".","a","v","i">>, "AVI">>,
    <<<<".","w","a","v">>, "WAV">>,
    <<<<".","f","l","a","c">>, "FLAC">>,
    <<<<".","z","i","p">>, "ZIP">>,
    <<<<".","t","a","r">>, "TAR">>,
    <<<<".","g","z">>, "GZIP">>,
    <<<<".","t","a","r",".","g","z">>, "GZIP">>,
    <<<<".","t","g","z">>, "GZIP">>,
    <<<<".","r","a","r">>, "RAR">>,
    <<<<".","7","z">>, "SEVEN_ZIP">>,
    <<<<".","c","s","v">>, "CSV">>,
    <<<<".","t","s","v">>, "TSV">>,
    <<<<".","l","o","g">>, "LOG">>,
    <<<<".","c","o","n","f">>, "CONFIG">>,
    <<<<".","c","o","n","f","i","g">>, "CONFIG">>,
    <<<<".","i","n","i">>, "CONFIG">>,
    <<<<".","c","f","g">>, "CONFIG">>
  >>

extension_keys == {ExtensionEntries[i][1] : i \in 1..Len(ExtensionEntries)}

\* self._extension_map[key], for a key of the map.
extension_map(key) ==
  ExtensionEntries[CHOOSE i \in 1..Len(ExtensionEntries) : ExtensionEntries[i][1] = key][2]

\* _build_shebang_map: interpreter substring -> FileType, in source order.
ShebangEntries ==
  <<
    <<<<"p","y","t","h","o","n">>, "PYTHON">>,
    <<<<"n","o","d","e">>, "JAVASCRIPT">>,
    <<<<"b","a","s","h">>, "SHELL">>,
    <<<<"s","h">>, "SHELL">>,
    <<<<"z","s","h">>, "SHELL">>,
    <<<<"f","i","s","h">>, "SHELL">>,
    <<<<"p","h","p">>, "PHP">>,
    <<<<"r","u","b","y">>, "RUBY">>,
    <<<<"p","e","r","l">>, "TEXT">>
  >>

\* _build_language_patterns: per FileType, its (regular expression, weight)
\* pairs, in source order.  A regular expression is kept as its text.
LanguagePatterns ==
  <<
    <<"PYTHON", <<<<"^\\s*import\\s+\\w+", 3>>, <<"^\\s*from\\s+\\w+\\s+import", 3>>, <<"^\\s*def\\s+\\w+\\s*\\(", 3>>, <<"^\\s*class\\s+\\w+", 3>>, <<"if\\s+__name__\\s*==\\s*[\"\\']__main__[\"\\']", 5>>, <<"^\\s*@\\w+", 2>>, <<"print\\s*\\(", 2>>>>>>,
    <<"JAVASCRIPT", <<<<"^\\s*function\\s+\\w+\\s*\\(", 3>>, <<"^\\s*var\\s+\\w+\\s*=", 2>>, <<"^\\s*let\\s+\\w+\\s*=", 2>>, <<"^\\s*const\\s+\\w+\\s*=", 2>>, <<"console\\.log\\s*\\(", 3>>, <<"require\\s*\\([\"\\']", 3>>, <<"module\\.exports\\s*=", 3>>, <<"=>", 2>>>>>>,
    <<"JAVA", <<<<"^\\s*public\\s+class\\s+\\w+", 5>>, <<"^\\s*import\\s+java\\.", 3>>, <<"^\\s*package\\s+\\w+", 3>>, <<"public\\s+static\\s+void\\s+main", 5>>, <<"System\\.out\\.print", 3>>, <<"^\\s*@Override", 2>>>>>>,
    <<"C", <<<<"#include\\s*<[^>]+>", 3>>, <<"#include\\s*\"[^\"]+\"", 3>>, <<"^\\s*int\\s+main\\s*\\(", 4>>, <<"printf\\s*\\(", 3>>, <<"malloc\\s*\\(", 2>>, <<"free\\s*\\(", 2>>>>>>,
    <<"CPP", <<<<"#include\\s*<[^>]+>", 3>>, <<"using\\s+namespace\\s+std", 4>>, <<"std::", 3>>, <<"cout\\s*<<", 3>>, <<"cin\\s*>>", 3>>, <<"^\\s*class\\s+\\w+", 3>>>>>>,
    <<"HTML", <<<<"<!DOCTYPE\\s+html>", 5>>, <<"<html[^>]*>", 4>>, <<"<head[^>]*>", 3>>, <<"<body[^>]*>", 3>>, <<"<div[^>]*>", 2>>, <<"<p[^>]*>", 2>>>>>>,
    <<"CSS", <<<<"[^{]+\\{[^}]+\\}", 4>>, <<"@media\\s", 3>>, <<"@import\\s", 3>>, <<"color\\s*:\\s*[^;]+;", 2>>, <<"background\\s*:\\s*[^;]+;", 2>>>>>>
  >>

\* magic_mappings of _magic_tests: description substring -> FileType, in
\* source (iteration) order.
magic_mappings ==
  <<
    <<<<"p","d","f">>, "PDF">>,
    <<<<"j","p","e","g">>, "JPEG">>,
    <<<<"p","n","g">>, "PNG">>,
    <<<<"g","i","f">>, "GIF">>,
    <<<<"z","i","p">>, "ZIP">>,
    <<<<"g","z","i","p">>, "GZIP">>,
    <<<<"t","a","r">>, "TAR">>,
    <<<<"r","a","r">>, "RAR">>,
    <<<<"e","l","f">>, "ELF">>,
    <<<<"p","e","3","2">>, "PE">>,
    <<<<"m","a","c","h","-","o">>, "MACH_O">>,
    <<<<"m","p","3">>, "MP3">>,
    <<<<"m","p","4">>, "MP4">>,
    <<<<"a","v","i">>, "AVI">>,
    <<<<"w","a","v">>, "WAV">>,
    <<<<"h","t","m","l">>, "HTML">>,
    <<<<"x","m","l">>, "XML">>,
    <<<<"j","s","o","n">>, "JSON">>
  >>

-----------------------------------------------------------------------------
(* DetectionResult (src/src/fft/types.py).                                 *)

\* A stage that gives no result returns None.
NoResult == [none |-> TRUE]

\* An exception that leaves detect_file_type.
Raised == [raised |-> "OSError"]

\* details is None.
NoDetails == <<>>

\* DetectionResult(file_path, file_type, test_type, confidence, details);
\* confidence in tenths.
DetectionResult(file_path, file_type, test_type, confidence, details) ==
  [file_path |-> file_path, file_type |-> file_type, test_type |-> test_type,
   confidence |-> confidence, details |-> details]

\* st_size of the entry: a directory's is never 0, a file's is its length.
st_size(w) == IF w.isdir THEN 1 ELSE w.content.size

-----------------------------------------------------------------------------
(* Stage 1: _filesystem_tests.                                             *)

\* The suffixes of the executable rule.
executable_suffixes ==
  { <<".","e","x","e">>, <<".","d","l","l">>, <<".","s","o">>, <<".","a","p","p">> }

\* A faulty variant of executable_rule: the suffix is not held against the
\* four suffixes.
executable_rule_any_suffix(w) ==
  LET sfx == lower(suffix(w.name))
  IN  IF w.xbit /\ sfx \in extension_keys
        THEN DetectionResult(w.name, extension_map(sfx), "FILESYSTEM", 9,
                             <<"Executable file">>)
        ELSE NoResult

\* The executable rule: owner-executable bit, one of the four suffixes, and
\* self._extension_map.get(suffix) not None.
executable_rule(w) ==
  LET sfx == lower(suffix(w.name))
  IN  IF w.xbit /\ sfx \in executable_suffixes /\ sfx \in extension_keys
        THEN DetectionResult(w.name, extension_map(sfx), "FILESYSTEM", 9,
                             <<"Executable file">>)
        ELSE NoResult

\* A faulty variant of compound_rule: compound suffixes are not looked up.
compound_rule_skipped(w) == NoResult

\* The compound-suffix rule: all suffixes joined, then the last two.
compound_rule(w) ==
  LET sfxs == suffixes(w.name)
      combined_suffix == lower(join(sfxs))
      last_two_suffix == lower(join(last_two(sfxs)))
  IN  IF Len(sfxs) > 1
        THEN IF combined_suffix \in extension_keys
               THEN DetectionResult(w.name, extension_map(combined_suffix),
                                    "FILESYSTEM", 8, <<"Extension: ", combined_suffix>>)
               ELSE IF Len(sfxs) >= 2 /\ last_two_suffix \in extension_keys
                      THEN DetectionResult(w.name, extension_map(last_two_suffix),
                                           "FILESYSTEM", 8,
                                           <<"Extension: ", last_two_suffix>>)
                      ELSE NoResult
        ELSE NoResult

\* A faulty variant of single_rule: the suffix is looked up as written.
single_rule_cased(w) ==
  LET sfx == suffix(w.name)
  IN  IF sfx \in extension_keys
        THEN DetectionResult(w.name, extension_map(sfx), "FILESYSTEM", 8,
                             <<"Extension: ", sfx>>)
        ELSE NoResult

\* The single-suffix rule.
single_rule(w) ==
  LET sfx == lower(suffix(w.name))
  IN  IF sfx \in extension_keys
        THEN DetectionResult(w.name, extension_map(sfx), "FILESYSTEM", 8,
                             <<"Extension: ", sfx>>)
        ELSE NoResult

\* The rules that follow the empty-file check, first result wins.
extension_rules(w) ==
  IF executable_rule(w) # NoResult THEN executable_rule(w)
  ELSE IF compound_rule(w) # NoResult THEN compound_rule(w)
  ELSE single_rule(w)

\* A faulty variant of filesystem_tests for the directory check: the symbolic-link
\* check comes before it.
filesystem_tests_link_first(w) ==
  IF "stat" \in w.faults THEN NoResult
  ELSE IF "lstat" \in w.faults THEN Raised
  ELSE IF w.islink
    THEN DetectionResult(w.name, "SYMLINK", "FILESYSTEM", 10, NoDetails)
  ELSE IF w.isdir
    THEN DetectionResult(w.name, "DIRECTORY", "FILESYSTEM", 10, NoDetails)
  ELSE IF st_size(w) = 0
    THEN DetectionResult(w.name, "EMPTY", "FILESYSTEM", 10, NoDetails)
  ELSE extension_rules(w)

\* A faulty variant of filesystem_tests for the empty-file check: the extension
\* rules come before it.
filesystem_tests_empty_last(w) ==
  IF "stat" \in w.faults THEN NoResult
  ELSE IF w.isdir
    THEN DetectionResult(w.name, "DIRECTORY", "FILESYSTEM", 10, NoDetails)
  ELSE IF "lstat" \in w.faults THEN Raised
  ELSE IF w.islink
    THEN DetectionResult(w.name, "SYMLINK", "FILESYSTEM", 10, NoDetails)
  ELSE IF extension_rules(w) # NoResult THEN extension_rules(w)
  ELSE IF st_size(w) = 0
    THEN DetectionResult(w.name, "EMPTY", "FILESYSTEM", 10, NoDetails)
  ELSE NoResult

\* _filesystem_tests: None when stat fails; is_symlink() is outside the try.
filesystem_tests(w) ==
  IF "stat" \in w.faults THEN NoResult
  ELSE IF w.isdir
    THEN DetectionResult(w.name, "DIRECTORY", "FILESYSTEM", 10, NoDetails)
  ELSE IF "lstat" \in w.faults THEN Raised
  ELSE IF w.islink
    THEN DetectionResult(w.name, "SYMLINK", "FILESYSTEM", 10, NoDetails)
  ELSE IF st_size(w) = 0
    THEN DetectionResult(w.name, "EMPTY", "FILESYSTEM", 10, NoDetails)
  ELSE extension_rules(w)

\* The system calls of _filesystem_tests.
filesystem_io(w) ==
  IF "stat" \in w.faults \/ w.isdir THEN <<"stat">> ELSE <<"stat", "lstat">>

-----------------------------------------------------------------------------
(* __init__: the signature service handle.                                 *)

\* self._magic after __init__: the handle magic.Magic(mime=True) gives, else
\* the one magic.Magic() gives, else None; None as well when the import
\* failed (MAGIC_AVAILABLE False).
init_magic(available, mime_fails, basic_fails) ==
  IF ~available THEN "none"
  ELSE IF ~mime_fails THEN "Magic"
  ELSE IF ~basic_fails THEN "Magic"
  ELSE "none"

-----------------------------------------------------------------------------
(* Stage 2: _magic_tests.                                                  *)

\* A faulty variant of first_mapping: the last entry whose pattern occurs.
first_mapping_last(entries, magic_lower, i) ==
  LET found == {k \in i..Len(entries) : contains(entries[k][1], magic_lower)}
  IN  IF found = {} THEN 0 ELSE CHOOSE k \in found : \A j \in found : j <= k

RECURSIVE first_mapping(_, _, _)
\* The for loop over magic_mappings.items(): the index of the first entry, from
\* i on, whose pattern occurs in magic_lower; 0 when there is none.
first_mapping(entries, magic_lower, i) ==
  IF i > Len(entries) THEN 0
  ELSE IF contains(entries[i][1], magic_lower) THEN i
  ELSE first_mapping(entries, magic_lower, i + 1)

text_keyword == <<"t","e","x","t">>

binary_keywords ==
  { <<"b","i","n","a","r","y">>, <<"d","a","t","a">>,
    <<"e","x","e","c","u","t","a","b","l","e">> }

\* A faulty variant of classify_description: the generic binary keywords are tested
\* before "text".
classify_description_binary_first(file_path, magic_result) ==
  LET magic_lower == lower(magic_result)
      hit == first_mapping(magic_mappings, magic_lower, 1)
      details == <<"Magic: ", magic_result>>
  IN  IF hit # 0
        THEN DetectionResult(file_path, magic_mappings[hit][2], "MAGIC", 9, details)
      ELSE IF \E keyword \in binary_keywords : contains(keyword, magic_lower)
        THEN DetectionResult(file_path, "BINARY", "MAGIC", 7, details)
      ELSE IF contains(text_keyword, magic_lower)
        THEN DetectionResult(file_path, "TEXT", "MAGIC", 6, details)
      ELSE NoResult

\* The body of the try block of _magic_tests once from_file has answered.
classify_description(file_path, magic_result) ==
  LET magic_lower == lower(magic_result)
      hit == first_mapping(magic_mappings, magic_lower, 1)
      details == <<"Magic: ", magic_result>>
  IN  IF hit # 0
        THEN DetectionResult(file_path, magic_mappings[hit][2], "MAGIC", 9, details)
      ELSE IF contains(text_keyword, magic_lower)
        THEN DetectionResult(file_path, "TEXT", "MAGIC", 6, details)
      ELSE IF \E keyword \in binary_keywords : contains(keyword, magic_lower)
        THEN DetectionResult(file_path, "BINARY", "MAGIC", 7, details)
      ELSE NoResult

\* A faulty variant of magic_tests: a failing service call is reported as binary.
magic_tests_failure_binary(m, w) ==
  IF m = "none" THEN NoResult
  ELSE IF "from_file" \in w.faults
    THEN DetectionResult(w.name, "BINARY", "MAGIC", 7, NoDetails)
  ELSE classify_description(w.name, w.desc)

\* _magic_tests: None without a handle, None when the call raises.
magic_tests(m, w) ==
  IF m = "none" THEN NoResult
  ELSE IF "from_file" \in w.faults THEN NoResult
  ELSE classify_description(w.name, w.desc)

\* A faulty variant of magic_io: the service is asked twice for one file.
magic_io_twice(m) == IF m = "none" THEN <<>> ELSE <<"from_file", "from_file">>

\* The service calls of _magic_tests.
magic_io(m) == IF m = "none" THEN <<>> ELSE <<"from_file">>

-----------------------------------------------------------------------------
(* Stage 3: _language_tests.                                               *)

\* stat, open or read raises OSError in _read_file_safely; opening a
\* directory does.
read_fails(w) == w.isdir \/ "read" \in w.faults

\* The encodings _read_file_safely tries, in order.
encodings == <<"utf-8", "utf-8-sig", "latin-1", "cp1252">>

\* A faulty variant of decodes: latin-1 takes ASCII bytes only.
decodes_ascii_latin(encoding, bytes) ==
  CASE encoding \in {"utf-8", "utf-8-sig"} -> bytes \in {"ascii", "utf8"}
    [] encoding = "latin-1" -> bytes = "ascii"
    [] OTHER -> bytes # "undefined"

\* content_bytes.decode(encoding) does not raise UnicodeDecodeError.  The
\* bytes are all ASCII ("ascii"), well-formed UTF-8 with multi-byte
\* characters ("utf8"), bytes above 0x7F that are no UTF-8 ("high"), or such
\* bytes with one cp1252 leaves undefined, as 0x81 ("undefined").  latin-1
\* maps each of the 256 byte values to a character.
decodes(encoding, bytes) ==
  CASE encoding \in {"utf-8", "utf-8-sig"} -> bytes \in {"ascii", "utf8"}
    [] encoding = "latin-1" -> TRUE
    [] OTHER -> bytes # "undefined"

\* _read_file_safely returns None.
NoText == <<>>

RECURSIVE first_decoding(_, _)
\* The loop over the encodings from the i-th on: the first that decodes the
\* bytes, None after the last.
first_decoding(bytes, i) ==
  IF i > Len(encodings) THEN NoText
  ELSE IF decodes(encodings[i], bytes) THEN <<encodings[i]>>
  ELSE first_decoding(bytes, i + 1)

\* _read_file_safely: None on an OSError, else the text of the first
\* encoding that decodes the bytes, held here as that encoding.
read_file_safely(w) ==
  IF read_fails(w) THEN NoText ELSE first_decoding(w.content.bytes, 1)

RECURSIVE first_shebang(_, _, _)
\* The for loop over self._shebang_map.items().
first_shebang(entries, shebang, i) ==
  IF i > Len(entries) THEN 0
  ELSE IF contains(entries[i][1], shebang) THEN i
  ELSE first_shebang(entries, shebang, i + 1)

\* The shebang check on lines[0]; the model's first lines carry no
\* surrounding white space, so strip() leaves them as they are.
shebang_check(w) ==
  LET line == w.content.first_line
      hit == first_shebang(ShebangEntries, line, 1)
  IN  IF startswith(line, <<"#","!">>) /\ hit # 0
        THEN DetectionResult(w.name, ShebangEntries[hit][2], "LANGUAGE", 9,
                             <<"Shebang: ", line>>)
        ELSE NoResult

RECURSIVE sum_weights(_, _, _)
\* score after the inner loop: the weights of the patterns, from i on, that
\* re.search finds in the content.
sum_weights(patterns, hits, i) ==
  IF i > Len(patterns) THEN 0
  ELSE (IF patterns[i][1] \in hits THEN patterns[i][2] ELSE 0)
       + sum_weights(patterns, hits, i + 1)

\* len(matches) after the inner loop.
count_matches(patterns, hits) ==
  Cardinality({i \in 1..Len(patterns) : patterns[i][1] \in hits})

\* A faulty variant of confidence_of_score: the score is not capped.
confidence_of_score_uncapped(score) == score

\* min(score / 10.0, 1.0), in tenths.
confidence_of_score(score) == IF score < 10 THEN score ELSE 10

\* Threshold for confident detection.
score_threshold == 3

\* A faulty variant of pattern_scoring: the category with the highest score
\* is returned, the earlier one of two with the same score.
pattern_scoring_best(w, i) ==
  LET score(k) == sum_weights(LanguagePatterns[k][2], w.content.hits, 1)
      passing == {k \in i..Len(LanguagePatterns) : score(k) >= score_threshold}
      best == CHOOSE k \in passing :
                \A j \in passing : score(k) > score(j) \/ (score(k) = score(j) /\ k <= j)
  IN  IF passing = {} THEN NoResult
      ELSE DetectionResult(w.name, LanguagePatterns[best][1], "LANGUAGE",
                           confidence_of_score(score(best)),
                           <<"Language patterns: ",
                             count_matches(LanguagePatterns[best][2], w.content.hits),
                             " matches">>)

RECURSIVE pattern_scoring_from_two(_, _)
\* A faulty variant of pattern_scoring: a score of 2 is enough.
pattern_scoring_from_two(w, i) ==
  IF i > Len(LanguagePatterns) THEN NoResult
  ELSE LET patterns == LanguagePatterns[i][2]
           score == sum_weights(patterns, w.content.hits, 1)
       IN  IF score >= 2
             THEN DetectionResult(w.name, LanguagePatterns[i][1], "LANGUAGE",
                                  confidence_of_score(score),
                                  <<"Language patterns: ",
                                    count_matches(patterns, w.content.hits), " matches">>)
             ELSE pattern_scoring_from_two(w, i + 1)

RECURSIVE pattern_scoring(_, _)
\* The outer loop over self._language_patterns.items(), from category i on.
pattern_scoring(w, i) ==
  IF i > Len(LanguagePatterns) THEN NoResult
  ELSE LET patterns == LanguagePatterns[i][2]
           score == sum_weights(patterns, w.content.hits, 1)
       IN  IF score >= score_threshold
             THEN DetectionResult(w.name, LanguagePatterns[i][1], "LANGUAGE",
                                  confidence_of_score(score),
                                  <<"Language patterns: ",
                                    count_matches(patterns, w.content.hits), " matches">>)
             ELSE pattern_scoring(w, i + 1)

\* _is_text_content: empty content is text, else printable ratio > 0.7.
is_text_content(c) ==
  c.nchars = 0 \/ 10 * c.nprintable > 7 * c.nchars

\* The generic text formats, once _is_text_content holds.  json.loads may
\* also raise something other than JSONDecodeError (RecursionError on deep
\* nesting), which the outer except turns into None.
generic_text(w) ==
  LET c == w.content
  IN  IF c.json = "valid"
        THEN DetectionResult(w.name, "JSON", "LANGUAGE", 8, <<"Valid JSON structure">>)
      ELSE IF c.json = "error" THEN NoResult
      ELSE IF c.yaml
        THEN DetectionResult(w.name, "YAML", "LANGUAGE", 7, <<"YAML-like structure">>)
      ELSE IF c.csv
        THEN DetectionResult(w.name, "CSV", "LANGUAGE", 7, <<"CSV-like structure">>)
      ELSE DetectionResult(w.name, "TEXT", "LANGUAGE", 6, NoDetails)

\* _language_tests.
language_tests(w) ==
  IF read_file_safely(w) = NoText
    THEN DetectionResult(w.name, "BINARY", "LANGUAGE", 8, <<"Non-text content">>)
  ELSE IF shebang_check(w) # NoResult THEN shebang_check(w)
  ELSE IF pattern_scoring(w, 1) # NoResult THEN pattern_scoring(w, 1)
  ELSE IF is_text_content(w.content) THEN generic_text(w)
  ELSE NoResult

\* The system calls of _read_file_safely: stat, then open and read.
language_io(w) == IF read_fails(w) THEN <<"stat">> ELSE <<"stat", "read">>

-----------------------------------------------------------------------------
(* The final fallback of detect_file_type.                                 *)

\* A faulty variant of appears_binary: a ratio of exactly 0.7 counts as binary.
appears_binary_inclusive(c) ==
  c.sample_len # 0 /\ 10 * c.sample_printable <= 7 * c.sample_len

\* _appears_binary: an empty sample is not binary, else printable ratio < 0.7.
appears_binary(c) ==
  c.sample_len # 0 /\ 10 * c.sample_printable < 7 * c.sample_len

\* The default result.
default_result(w) == DetectionResult(w.name, "UNKNOWN", "FILESYSTEM", 1, NoDetails)

\* A faulty variant of fallback: the decision is taken on the text the content
\* stage analysed.
fallback_on_text(w) ==
  IF "sample" \in w.faults THEN default_result(w)
  ELSE IF ~w.isdir /\ st_size(w) > 0
          /\ (w.content.sample_nulls > 0
              \/ 10 * w.content.nprintable < 7 * w.content.nchars)
    THEN DetectionResult(w.name, "BINARY", "LANGUAGE", 8, <<"Binary content detected">>)
  ELSE default_result(w)

\* The try block and the default: an OSError in it (here from open) is passed
\* over.
fallback(w) ==
  IF "sample" \in w.faults THEN default_result(w)
  ELSE IF ~w.isdir /\ st_size(w) > 0
          /\ (w.content.sample_nulls > 0 \/ appears_binary(w.content))
    THEN DetectionResult(w.name, "BINARY", "LANGUAGE", 8, <<"Binary content detected">>)
  ELSE default_result(w)

\* The system calls of the fallback: is_file(), then stat(), then open and
\* read for a non-empty file (open is the call that fails).
fallback_io(w) ==
  IF w.isdir THEN <<"stat">>
  ELSE IF "sample" \in w.faults \/ st_size(w) = 0 THEN <<"stat", "stat">>
  ELSE <<"stat", "stat", "read">>

-----------------------------------------------------------------------------
(* The inputs of the model: file names, entries, contents, descriptions.   *)

\* The parts a model file name is built from: a stem ("a" or nothing, for a
\* hidden file) and dot-separated parts, in either case, known or unknown to
\* the extension table, or empty (a doubled or a trailing dot).
NameStems == { <<"a">>, <<>> }

NameParts ==
  { <<"p","y">>, <<"t","a","r">>, <<"T","A","R">>, <<"g","z">>, <<"s","o">>, <<>> }

RECURSIVE NamesUpTo(_)
NamesUpTo(n) ==
  IF n = 0 THEN NameStems
  ELSE NamesUpTo(n - 1)
       \cup { name \o <<".">> \o part : name \in NamesUpTo(n - 1), part \in NameParts }

\* The final path components: not empty, and not made of dots alone.
Names == { name \in NamesUpTo(MaxSuffixes) : \E i \in 1..Len(name) : name[i] # "." }

PlainName == <<"a">>

FaultNames == { <<"a">>, <<"a",".","p","y">> }

\* The file's content as the stages observe it: the kind of its bytes (ASCII
\* unless said otherwise), its size, its first line, the
\* catalog's regular expressions that re.search finds in it (hits), the counts
\* _is_text_content takes of the decoded text, what the JSON, YAML and CSV
\* checks find, and the counts the fallback takes of its first 512 bytes.
Content(first_line, hits, nprintable, json, yaml, csv, sample_printable, sample_nulls) ==
  [size |-> 10, first_line |-> first_line, hits |-> hits,
   nchars |-> 10, nprintable |-> nprintable,
   json |-> json, yaml |-> yaml, csv |-> csv,
   sample_len |-> 10, sample_printable |-> sample_printable,
   sample_nulls |-> sample_nulls, bytes |-> "ascii"]

EmptyContent ==
  [size |-> 0, first_line |-> <<>>, hits |-> {},
   nchars |-> 0, nprintable |-> 0,
   json |-> "no", yaml |-> FALSE, csv |-> FALSE,
   sample_len |-> 0, sample_printable |-> 0, sample_nulls |-> 0,
   bytes |-> "ascii"]

PlainLine == <<"h","e","l","l","o">>

\* Plain text: no shebang, no pattern, no structure.
PlainContent == Content(PlainLine, {}, 10, "no", FALSE, FALSE, 10, 0)

\* Bytes that are neither text nor printable, with a null byte.
BinaryContent ==
  [Content(<<>>, {}, 2, "no", FALSE, FALSE, 2, 1) EXCEPT !.bytes = "high"]

\* Bytes above 0x7F that are no UTF-8: latin-1 decodes them to letters, which
\* are printable characters, while no byte of the sample is printable ASCII.
Latin1Line == <<"\\xe9", "\\xe9", "\\xe9">>

Latin1Content ==
  [Content(Latin1Line, {}, 10, "no", FALSE, FALSE, 0, 0) EXCEPT !.bytes = "high"]

\* The same letters written in UTF-8.
Utf8Content ==
  [Content(<<"\\xc3\\xa9", "\\xc3\\xa9", "\\xc3\\xa9">>, {}, 10, "no", FALSE, FALSE, 0, 0)
     EXCEPT !.bytes = "utf8"]

\* Bytes 0x81: no UTF-8, undefined in cp1252; latin-1 decodes them to control
\* characters, none of them printable.
Cp1252UndefinedContent ==
  [Content(<<"\\x81", "\\x81", "\\x81">>, {}, 0, "no", FALSE, FALSE, 0, 0)
     EXCEPT !.bytes = "undefined"]

\* Every regular expression of the catalog.
AllPatterns ==
  UNION { { LanguagePatterns[i][2][j][1] : j \in 1..Len(LanguagePatterns[i][2]) } :
          i \in 1..Len(LanguagePatterns) }

RECURSIVE HitSetsUpTo(_)
HitSetsUpTo(n) ==
  IF n = 0 THEN { {} }
  ELSE HitSetsUpTo(n - 1)
       \cup { hits \cup {p} : hits \in HitSetsUpTo(n - 1), p \in AllPatterns }

\* First lines with and without an interpreter of the shebang table.
ShebangLines ==
  { <<"#","!","/","b","i","n","/","s","h">>,
    <<"#","!","/","b","i","n","/","b","a","s","h">>,
    <<"#","!","/","u","s","r","/","b","i","n","/","e","n","v"," ","p","y","t","h","o","n","3">>,
    <<"#","!","/","u","s","r","/","b","i","n","/","n","o","d","e">>,
    <<"#","!","/","u","s","r","/","b","i","n","/","a","w","k">>,
    <<"#"," ","p","y","t","h","o","n">> }

\* The first n regular expressions of category i.
FirstPatterns(i, n) == { LanguagePatterns[i][2][j][1] : j \in 1..n }

Contents ==
  { EmptyContent, BinaryContent, Latin1Content, Utf8Content, Cp1252UndefinedContent }
  \cup { Content(PlainLine, FirstPatterns(i, n), 10, "no", FALSE, FALSE, 10, 0) :
           i \in 1..Len(LanguagePatterns), n \in 1..5 }
  \cup { Content(PlainLine, hits, 10, "no", FALSE, FALSE, 10, 0) :
           hits \in HitSetsUpTo(MaxHits) }
  \cup { Content(line, hits, 10, "no", FALSE, FALSE, 10, 0) :
           line \in ShebangLines, hits \in HitSetsUpTo(1) }
  \cup { Content(PlainLine, {}, nprintable, json, yaml, csv, 10, 0) :
           nprintable \in {6, 7, 8, 10}, json \in {"no", "valid", "invalid", "error"},
           yaml \in BOOLEAN, csv \in BOOLEAN }
  \cup { Content(PlainLine, {}, nprintable, "no", FALSE, FALSE, sample_printable, nulls) :
           nprintable \in {0, 7}, sample_printable \in {0, 6, 7, 8}, nulls \in {0, 1} }

\* The words a model signature description is made of: the substrings
\* _magic_tests looks for, in the case file(1) and MIME types write them, and
\* a word it does not know.
DescWords ==
  { <<"P","D","F">>, <<"J","P","E","G">>, <<"P","N","G">>, <<"G","I","F">>,
    <<"Z","i","p">>, <<"g","z","i","p">>, <<"t","a","r">>, <<"R","A","R">>,
    <<"E","L","F">>, <<"P","E","3","2">>, <<"M","a","c","h","-","O">>,
    <<"M","P","3">>, <<"M","P","4">>, <<"A","V","I">>, <<"W","A","V","E">>,
    <<"H","T","M","L">>, <<"X","M","L">>, <<"J","S","O","N">>,
    <<"t","e","x","t">>, <<"b","i","n","a","r","y">>, <<"d","a","t","a">>,
    <<"e","x","e","c","u","t","a","b","l","e">>,
    <<"o","c","t","e","t">> }

RECURSIVE DescsUpTo(_)
DescsUpTo(n) ==
  IF n = 0 THEN { <<>> }
  ELSE DescsUpTo(n - 1)
       \cup { (IF d = <<>> THEN d ELSE d \o <<" ">>) \o word :
                d \in DescsUpTo(n - 1), word \in DescWords }

Descs == DescsUpTo(MaxDescWords)

\* A description _magic_tests maps to nothing.
UnknownDesc == <<"o","c","t","e","t">>

DataDesc == <<"d","a","t","a">>

\* What can fail during a call: stat in _filesystem_tests, is_symlink, the
\* service's from_file, open in _read_file_safely, and open in the fallback.
Faults == {"stat", "lstat", "from_file", "read", "sample"}

\* The entry at file_path: whether the path resolves ("present"), does not
\* exist ("absent": stat gives ENOENT) or cannot be resolved ("inaccessible":
\* stat gives another error, EACCES or ENAMETOOLONG, which Path.exists()
\* re-raises); what stat and lstat report; the calls that fail; the
\* description the signature service gives; the content.
World(status, name, isdir, islink, xbit, faults, desc, content) ==
  [status |-> status, name |-> name, isdir |-> isdir, islink |-> islink,
   xbit |-> xbit, faults |-> faults, desc |-> desc, content |-> content]

\* No call is under way.
NoWorld == World("none", <<>>, FALSE, FALSE, FALSE, {}, <<>>, EmptyContent)

\* Every name with every metadata; a directory has no content of its own.
MetadataWorlds ==
  { World("present", name, kind[1], islink, xbit, {}, UnknownDesc, kind[2]) :
      name \in Names, islink \in BOOLEAN, xbit \in BOOLEAN,
      kind \in { <<TRUE, EmptyContent>>, <<FALSE, EmptyContent>>, <<FALSE, PlainContent>> } }

\* Every combination of failing calls, and the paths that do not resolve: a
\* symbolic link among them is a link whose target is missing, or cannot be
\* looked up.
FaultWorlds ==
  { World("present", name, kind[1], islink, FALSE, faults, desc, kind[2]) :
      name \in FaultNames, islink \in BOOLEAN, faults \in SUBSET Faults,
      desc \in {UnknownDesc, DataDesc},
      kind \in { <<TRUE, EmptyContent>>, <<FALSE, EmptyContent>>,
                 <<FALSE, PlainContent>>, <<FALSE, BinaryContent>> } }
  \cup { World(status, name, FALSE, islink, FALSE, {}, <<>>, EmptyContent) :
           status \in {"absent", "inaccessible"}, name \in FaultNames,
           islink \in BOOLEAN }

\* Every description, for a plain file the filesystem stage passes on.
DescWorlds ==
  { World("present", PlainName, FALSE, FALSE, FALSE, {}, desc, PlainContent) :
      desc \in Descs }

\* Every content, for a plain file the first two stages pass on.
ContentWorlds ==
  { World("present", PlainName, FALSE, FALSE, FALSE, {}, UnknownDesc, content) :
      content \in Contents }

\* Descriptions the service gives for text files: the MIME types of a plain
\* text and of a Python script.
TextPlainDesc == <<"t","e","x","t","/","p","l","a","i","n">>

ScriptDesc ==
  <<"t","e","x","t","/","x","-","s","c","r","i","p","t",".","p","y","t","h","o","n">>

\* The whole content print('hi'): of the catalog, only the print-call
\* expression of the Python set is found in it.
PrintLine == <<"p","r","i","n","t","(","'","h","i","'",")">>

PrintHiContent ==
  Content(PrintLine, {LanguagePatterns[1][2][7][1]}, 10, "no", FALSE, FALSE, 10, 0)

\* Scripts and short texts.
ScriptContents ==
  { Content(line, hits, 10, "no", FALSE, FALSE, 10, 0) :
      line \in ShebangLines, hits \in HitSetsUpTo(1) }
  \cup { PrintHiContent, PlainContent }

\* Text files with what the service says of them, or with a description it
\* maps to nothing.
ScriptWorlds ==
  { World("present", PlainName, FALSE, FALSE, xbit, {}, desc, content) :
      xbit \in BOOLEAN, desc \in {UnknownDesc, TextPlainDesc, ScriptDesc},
      content \in ScriptContents }

-----------------------------------------------------------------------------
(* detect_file_type, stage by stage.                                       *)

\* A faulty variant of magic_after_stage: the service handle is closed once it
\* has been used.
magic_closed_after_use(m, stage) == IF stage = "MAGIC" THEN "none" ELSE m

\* A faulty variant of magic_after_stage: the handle is dropped when a call
\* comes to its content stage.
magic_dropped_at_content(m, stage) == IF stage = "LANGUAGE" THEN "none" ELSE m

\* self._magic after a stage of a call: detect_file_type and the stages read
\* self._magic and the three tables and assign no attribute of self.
magic_after_stage(m, stage) == m

\* A faulty variant of not_found: the default result is returned.
not_found_as_default(w) == default_result(w)

\* The result for a path that does not exist.
not_found(w) ==
  DetectionResult(w.name, "UNKNOWN", "FILESYSTEM", 10, <<"File not found">>)

\* A faulty variant of after_stage: a stage's result does not end the call.
after_stage_no_return(r, following) ==
  IF r = Raised THEN "raised" ELSE following

\* `if result: return result` after a stage, else on to the following one; an
\* exception the stage lets through leaves detect_file_type.
after_stage(r, following) ==
  IF r = Raised THEN "raised"
  ELSE IF r # NoResult THEN "done"
  ELSE following

\* The threads that share one detector.
Threads == 1..MaxThreads

\* A thread that is not in a call.
IdleCall == [pc |-> "idle", world |-> NoWorld, result |-> NoResult, stages |-> <<>>]

\* No run of the command line is under way: the loop's state before main.
NoRun ==
  [pc |-> "off", test_type |-> "all", filter_type |-> {},
   include_directories |-> FALSE, max_depth |-> <<>>,
   paths |-> <<>>, next |-> 1, queue |-> <<>>,
   total_files |-> 0, detected_files |-> 0, errors |-> 0,
   log |-> <<>>, warnings |-> <<>>, ended |-> "no", exit_code |-> 0]

Init ==
  /\ magic = "unset"
  /\ pc = "new"
  /\ world = NoWorld
  /\ result = NoResult
  /\ stages = <<>>
  /\ io = <<>>
  /\ previous = NoResult
  /\ inflight = [t \in Threads |-> IdleCall]
  /\ cli = NoRun

\* FileTypeDetector().
Construct ==
  /\ pc = "new"
  /\ \E available \in BOOLEAN, mime_fails \in BOOLEAN, basic_fails \in BOOLEAN :
       magic' = init_magic(available, mime_fails, basic_fails)
  /\ pc' = "idle"
  /\ UNCHANGED <<world, result, stages, io, previous, inflight, cli>>

\* A faulty variant of after_exists: a symbolic link exists whatever its
\* target.
after_exists_no_follow(w) ==
  CASE w.status = "inaccessible" -> "raised"
    [] w.status = "absent" /\ ~w.islink -> "done"
    [] OTHER -> "FILESYSTEM"

\* Where a call stands after the existence check: file_path.exists() raises,
\* is False, or is True.
after_exists(w) ==
  CASE w.status = "inaccessible" -> "raised"
    [] w.status = "absent" -> "done"
    [] OTHER -> "FILESYSTEM"

\* detect_file_type(file_path) up to the existence check, for an entry of ws.
Call(ws) ==
  /\ pc = "idle"
  /\ \E w \in ws :
       /\ world' = w
       /\ pc' = after_exists(w)
       /\ result' = IF w.status = "absent" THEN not_found(w) ELSE NoResult
  /\ stages' = <<>>
  /\ io' = <<"stat">>
  /\ previous' = NoResult
  /\ UNCHANGED <<magic, inflight, cli>>

\* The caller keeps what the call gave and calls detect_file_type again on the
\* same path, nothing having changed.
Again ==
  /\ pc \in {"done", "raised"}
  /\ previous = NoResult
  /\ previous' = IF pc = "raised" THEN Raised ELSE result
  /\ pc' = after_exists(world)
  /\ result' = IF world.status = "absent" THEN not_found(world) ELSE NoResult
  /\ stages' = <<>>
  /\ io' = <<"stat">>
  /\ UNCHANGED <<magic, world, inflight, cli>>

\* One stage ran and gave r.
Ran(stage, r, calls, following) ==
  /\ stages' = Append(stages, <<stage, r>>)
  /\ io' = io \o calls
  /\ pc' = after_stage(r, following)
  /\ result' = IF r \in {NoResult, Raised} THEN result ELSE r
  /\ magic' = magic_after_stage(magic, stage)
  /\ UNCHANGED <<world, previous, inflight, cli>>

\* Stage 1.
FilesystemStage ==
  /\ pc = "FILESYSTEM"
  /\ Ran("FILESYSTEM", filesystem_tests(world), filesystem_io(world), "MAGIC")

\* Stage 2.
MagicStage ==
  /\ pc = "MAGIC"
  /\ Ran("MAGIC", magic_tests(magic, world), magic_io(magic), "LANGUAGE")

\* Stage 3.
LanguageStage ==
  /\ pc = "LANGUAGE"
  /\ Ran("LANGUAGE", language_tests(world), language_io(world), "DEFAULT")

\* The final fallback.
Fallback ==
  /\ pc = "DEFAULT"
  /\ Ran("DEFAULT", fallback(world), fallback_io(world), "done")

\* The call is over: the caller has the result, or the exception.
Return ==
  /\ pc \in {"done", "raised"}
  /\ pc' = "idle"
  /\ world' = NoWorld
  /\ result' = NoResult
  /\ stages' = <<>>
  /\ io' = <<>>
  /\ previous' = NoResult
  /\ UNCHANGED <<magic, inflight, cli>>

Next ==
  \/ Construct
  \/ Call(MetadataWorlds)
  \/ Call(FaultWorlds)
  \/ Call(DescWorlds)
  \/ Call(ContentWorlds)
  \/ Call(ScriptWorlds)
  \/ FilesystemStage
  \/ MagicStage
  \/ LanguageStage
  \/ Fallback
  \/ Again
  \/ Return

Spec == Init /\ [][Next]_vars

-----------------------------------------------------------------------------
(* Several threads call detect_file_type on one detector.  A call's file   *)
(* path, its result and its place in the pipeline are locals of the call;  *)
(* self, with its handle and its tables, is what the calls share.          *)

\* The files the threads work on: one for each way a call can end.
SharedWorlds ==
  { World("present", <<"d">>, TRUE, FALSE, FALSE, {}, UnknownDesc, EmptyContent),
    World("present", <<"m",".","p","y">>, FALSE, FALSE, FALSE, {}, UnknownDesc, PlainContent),
    World("present", <<"b">>, FALSE, FALSE, FALSE, {}, DataDesc, PlainContent),
    World("present", <<"s">>, FALSE, FALSE, FALSE, {}, UnknownDesc,
          Content(<<"#","!","/","b","i","n","/","s","h">>, {}, 10, "no", FALSE, FALSE, 10, 0)),
    World("present", <<"z">>, FALSE, FALSE, FALSE, {}, UnknownDesc, BinaryContent),
    World("present", <<"f">>, FALSE, FALSE, FALSE, {"from_file"}, DataDesc, PlainContent),
    World("absent", <<"n">>, FALSE, FALSE, FALSE, {}, <<>>, EmptyContent) }

\* The stage a call's position names, applied to the call's own file_path.
stage_result(stage, m, w) ==
  CASE stage = "FILESYSTEM" -> filesystem_tests(w)
    [] stage = "MAGIC" -> magic_tests(m, w)
    [] stage = "LANGUAGE" -> language_tests(w)
    [] OTHER -> fallback(w)

\* The stage that follows when a stage gives no result.
following_stage(stage) ==
  CASE stage = "FILESYSTEM" -> "MAGIC"
    [] stage = "MAGIC" -> "LANGUAGE"
    [] stage = "LANGUAGE" -> "DEFAULT"
    [] OTHER -> "done"

\* Thread t enters detect_file_type.
ThreadCall(t) ==
  /\ pc = "idle"
  /\ inflight[t].pc = "idle"
  /\ \E w \in SharedWorlds :
       inflight' = [inflight EXCEPT ![t] =
                      [pc |-> after_exists(w), world |-> w,
                       result |-> IF w.status = "absent" THEN not_found(w) ELSE NoResult,
                       stages |-> <<>>]]
  /\ UNCHANGED <<magic, pc, world, result, stages, io, previous, cli>>

\* Thread t runs the stage its call has come to.
ThreadStage(t) ==
  /\ inflight[t].pc \in {"FILESYSTEM", "MAGIC", "LANGUAGE", "DEFAULT"}
  /\ LET c == inflight[t]
         r == stage_result(c.pc, magic, c.world)
     IN  /\ inflight' = [inflight EXCEPT ![t] =
                           [pc |-> after_stage(r, following_stage(c.pc)),
                            world |-> c.world,
                            result |-> IF r \in {NoResult, Raised} THEN c.result ELSE r,
                            stages |-> Append(c.stages, <<c.pc, r>>)]]
         /\ magic' = magic_after_stage(magic, c.pc)
  /\ UNCHANGED <<pc, world, result, stages, io, previous, cli>>

\* Thread t's call is over.
ThreadReturn(t) ==
  /\ inflight[t].pc \in {"done", "raised"}
  /\ inflight' = [inflight EXCEPT ![t] = IdleCall]
  /\ UNCHANGED <<magic, pc, world, result, stages, io, previous, cli>>

NextShared ==
  \/ Construct
  \/ \E t \in Threads : ThreadCall(t)
  \/ \E t \in Threads : ThreadStage(t)
  \/ \E t \in Threads : ThreadReturn(t)

SpecShared == Init /\ [][NextShared]_vars

-----------------------------------------------------------------------------
(* The command line (src/src/fft/cli.py): walk_paths and the file loop of  *)
(* main.  A path is the sequence of its parts, an absolute one starting    *)
(* with "/"; Path(".") has no parts.                                       *)

\* The values of DetectionMethod (src/src/fft/types.py).
DetectionMethod ==
  [ FILESYSTEM |-> "filesystem",
    MAGIC |-> "magic",
    LANGUAGE |-> "language" ]

\* The values of FileType (src/src/fft/types.py).
FileType ==
  [ PYTHON |-> "Python source",
    JAVASCRIPT |-> "JavaScript source",
    TYPESCRIPT |-> "TypeScript source",
    JAVA |-> "Java source",
    C |-> "C source",
    CPP |-> "C++ source",
    RUST |-> "Rust source",
    GO |-> "Go source",
    PHP |-> "PHP source",
    RUBY |-> "Ruby source",
    SHELL |-> "Shell script",
    POWERSHELL |-> "PowerShell script",
    BATCH |-> "Batch file",
    HTML |-> "HTML document",
    CSS |-> "CSS stylesheet",
    XML |-> "XML document",
    JSON |-> "JSON data",
    YAML |-> "YAML data",
    PDF |-> "PDF document",
    WORD |-> "Microsoft Word document",
    EXCEL |-> "Microsoft Excel spreadsheet",
    POWERPOINT |-> "Microsoft PowerPoint presentation",
    TEXT |-> "Text file",
    MARKDOWN |-> "Markdown document",
    JPEG |-> "JPEG image",
    PNG |-> "PNG image",
    GIF |-> "GIF image",
    SVG |-> "SVG image",
    TIFF |-> "TIFF image",
    BMP |-> "BMP image",
    WEBP |-> "WebP image",
    MP3 |-> "MP3 audio",
    MP4 |-> "MP4 video",
    AVI |-> "AVI video",
    WAV |-> "WAV audio",
    FLAC |-> "FLAC audio",
    ZIP |-> "ZIP archive",
    TAR |-> "TAR archive",
    GZIP |-> "GZIP archive",
    RAR |-> "RAR archive",
    SEVEN_ZIP |-> "7-Zip archive",
    ELF |-> "ELF executable",
    PE |-> "PE executable",
    MACH_O |-> "Mach-O executable",
    CSV |-> "CSV data",
    TSV |-> "TSV data",
    LOG |-> "Log file",
    CONFIG |-> "Configuration file",
    BINARY |-> "Binary file",
    EMPTY |-> "Empty file",
    SYMLINK |-> "Symbolic link",
    DIRECTORY |-> "Directory",
    UNKNOWN |-> "Unknown file type" ]

\* Path.cwd().
cwd == <<"/", "w">>

\* file_path.relative_to(other) raises ValueError unless the parts of other
\* begin those of file_path; a relative path is never below an absolute one.
relative_to_raises(file_path, other) ==
  ~(Len(other) <= Len(file_path) /\ SubSeq(file_path, 1, Len(other)) = other)

\* file_path.relative_to(other), when it does not raise.
relative_to(file_path, other) ==
  SubSeq(file_path, Len(other) + 1, Len(file_path))

\* The depth filter of the loop: max_depth is <<>> for None, else <<N>>; a
\* ValueError leaves the file in.
too_deep(file_path, max_depth) ==
  /\ max_depth # <<>>
  /\ ~relative_to_raises(file_path, cwd)
  /\ Len(relative_to(file_path, cwd)) > max_depth[1] + 1

\* The entry a command-line path names: what exists(), is_file() and is_dir()
\* say of it ("unresolvable": exists() raises an OSError, as for a name
\* longer than NAME_MAX), whether walking it meets a PermissionError, the
\* detector's view of it, and what rglob("*") finds below it.
Entry(path, kind, denied, w, below) ==
  [path |-> path, kind |-> kind, denied |-> denied, world |-> w, below |-> below]

\* One entry rglob("*") finds: its path below the directory, what is_file()
\* says of it, and the detector's view of it.
Below(rel, isfile, w) == [rel |-> rel, isfile |-> isfile, world |-> w]

\* The files of the runs as the detector sees them: a Python source by its
\* suffix, a plain text without suffix, bytes the signature service calls
\* data, bytes no stage classifies, a file whose lstat fails, a FIFO.
PyWorld ==
  World("present", <<"a",".","p","y">>, FALSE, FALSE, FALSE, {}, UnknownDesc, PlainContent)

TextWorld ==
  World("present", <<"b">>, FALSE, FALSE, FALSE, {}, UnknownDesc, PlainContent)

DataWorld ==
  World("present", <<"c">>, FALSE, FALSE, FALSE, {}, DataDesc, BinaryContent)

OddWorld ==
  World("present", <<"o">>, FALSE, FALSE, FALSE, {}, UnknownDesc,
        Content(<<>>, {}, 7, "no", FALSE, FALSE, 7, 0))

BrokenWorld ==
  World("present", <<"k">>, FALSE, FALSE, FALSE, {"lstat"}, UnknownDesc, PlainContent)

FifoWorld ==
  World("present", <<"q">>, FALSE, FALSE, FALSE, {}, UnknownDesc, EmptyContent)

DirWorld(name) ==
  World("present", name, TRUE, FALSE, FALSE, {}, UnknownDesc, EmptyContent)

\* A directory at path with a file in it, a subdirectory s with a file, and
\* a subdirectory s/u with a file.
Tree(path) ==
  Entry(path, "dir", FALSE, DirWorld(<<"t">>),
        << Below(<<"a.py">>, TRUE, PyWorld),
           Below(<<"s">>, FALSE, DirWorld(<<"s">>)),
           Below(<<"s", "b">>, TRUE, TextWorld),
           Below(<<"s", "u">>, FALSE, DirWorld(<<"u">>)),
           Below(<<"s", "u", "c">>, TRUE, DataWorld) >>)

\* Path("."), the default of main.
Dot == Tree(<<>>)

\* A directory whose entries cannot be examined: is_file() raises
\* PermissionError inside the walk.
DeniedDir ==
  Entry(<<"p">>, "dir", TRUE, DirWorld(<<"p">>), << Below(<<"a.py">>, TRUE, PyWorld) >>)

Missing == Entry(<<"n">>, "missing", FALSE, NoWorld, <<>>)

Unresolvable == Entry(<<"x">>, "unresolvable", FALSE, NoWorld, <<>>)

File(path, w) == Entry(path, "file", FALSE, w, <<>>)

Special == Entry(<<"q">>, "special", FALSE, FifoWorld, <<>>)

\* The command lines of the model: no path at all, a directory given as a
\* relative path, as the absolute path of the current directory, of a
\* directory below it and of a directory elsewhere, and files after a path
\* that fails.
CommandLines ==
  { <<>>,
    << Tree(<<"t">>) >>,
    << Tree(cwd) >>,
    << Tree(cwd \o <<"t">>) >>,
    << Tree(<<"/", "e">>) >>,
    << Missing, File(<<"a.py">>, PyWorld) >>,
    << Unresolvable, File(<<"a.py">>, PyWorld) >>,
    << DeniedDir, File(<<"a.py">>, PyWorld) >>,
    << Special, File(<<"k">>, BrokenWorld), File(<<"o">>, OddWorld) >> }

\* The choices of --test-type.
TestTypes == {"filesystem", "magic", "language", "all"}

\* The values of --filter-type the runs are given: none, or one category.
FilterTypes == { {}, {FileType.PYTHON} }

\* The values of --max-depth the runs are given: <<>> when the option is absent.
MaxDepths == { <<>>, <<0>>, <<1>> }

\* What walk_paths does with one command-line path: the files it yields, the
\* warning it writes, or the OSError Path.exists() lets through.
walk_paths(e) ==
  CASE e.kind = "unresolvable" ->
         [yields |-> <<>>, warning |-> <<>>, raised |-> TRUE]
    [] e.kind = "missing" ->
         [yields |-> <<>>, warning |-> <<"does not exist", e.path>>, raised |-> FALSE]
    [] e.kind = "dir" /\ e.denied ->
         [yields |-> <<>>, warning |-> <<"Permission denied", e.path>>, raised |-> FALSE]
    [] e.kind = "dir" ->
         [yields |-> [i \in 1..Len(SelectSeq(e.below, LAMBDA b : b.isfile)) |->
                        [path |-> e.path \o SelectSeq(e.below, LAMBDA b : b.isfile)[i].rel,
                         world |-> SelectSeq(e.below, LAMBDA b : b.isfile)[i].world]],
          warning |-> <<>>, raised |-> FALSE]
    [] OTHER ->
         [yields |-> << [path |-> e.path, world |-> e.world] >>,
          warning |-> <<>>, raised |-> FALSE]

\* detect_file_type as one call: the stages in order from the given one.
RECURSIVE pipeline(_, _, _)
pipeline(m, w, stage) ==
  LET r == stage_result(stage, m, w)
      then == after_stage(r, following_stage(stage))
  IN  IF then \in {"raised", "done"} THEN r ELSE pipeline(m, w, then)

\* detector.detect_file_type(file_path): a result, or Raised.
detect_file_type(m, w) ==
  CASE after_exists(w) = "raised" -> Raised
    [] after_exists(w) = "done" -> not_found(w)
    [] OTHER -> pipeline(m, w, "FILESYSTEM")

\* A faulty variant of run_specific_test: the whole pipeline is run again.
run_specific_test_all_stages(m, w, test_type) == detect_file_type(m, w)

\* _run_specific_test.
run_specific_test(m, w, test_type) ==
  CASE test_type = "filesystem" -> filesystem_tests(w)
    [] test_type = "magic" -> magic_tests(m, w)
    [] test_type = "language" -> language_tests(w)
    [] OTHER -> NoResult

\* One line of the run's record: the file, what became of it, and the result
\* that was displayed or that the display failed on.
Logged(f, outcome, r) ==
  [path |-> f.path, world |-> f.world, outcome |-> outcome, result |-> r]

\* The body of the file loop for the file f the walk yields; display_fails
\* says whether click.echo raises in _display_result (a closed pipe).
loop_body(c, m, f, display_fails) ==
  LET counted == [c EXCEPT !.total_files = @ + 1]
      skipped(why) == [counted EXCEPT !.log = Append(@, Logged(f, why, NoResult))]
      failed(cc, r) == [cc EXCEPT !.errors = @ + 1,
                                  !.log = Append(@, Logged(f, "error", r))]
      full == detect_file_type(m, f.world)
      shown == IF c.test_type # "all" /\ DetectionMethod[full.test_type] # c.test_type
                  THEN run_specific_test(m, f.world, c.test_type)
                  ELSE full
      detected == [counted EXCEPT !.detected_files =
                     IF shown.file_type # "UNKNOWN" THEN @ + 1 ELSE @]
  IN  IF too_deep(f.path, c.max_depth) THEN skipped("max-depth")
      ELSE IF full = Raised THEN failed(counted, NoResult)
      ELSE IF full.file_type = "DIRECTORY" /\ ~c.include_directories
        THEN skipped("directory")
      ELSE IF shown = Raised THEN failed(counted, NoResult)
      ELSE IF shown = NoResult THEN skipped("test-type")
      ELSE IF c.filter_type # {} /\ FileType[shown.file_type] \notin c.filter_type
        THEN skipped("filter-type")
      ELSE IF display_fails THEN failed(detected, shown)
      ELSE [detected EXCEPT !.log = Append(@, Logged(f, "displayed", shown))]

\* main up to the file loop: the options, the paths ("." when none is given)
\* and the counters; the detector is the one Construct made.
Main ==
  /\ pc = "idle"
  /\ cli.pc = "off"
  /\ \E test_type \in TestTypes, filter_type \in FilterTypes,
        include_directories \in BOOLEAN, max_depth \in MaxDepths,
        paths \in CommandLines :
       cli' = [NoRun EXCEPT !.pc = "loop",
                            !.test_type = test_type,
                            !.filter_type = filter_type,
                            !.include_directories = include_directories,
                            !.max_depth = max_depth,
                            !.paths = IF paths = <<>> THEN <<Dot>> ELSE paths]
  /\ UNCHANGED <<magic, pc, world, result, stages, io, previous, inflight>>

\* The loop resumes walk_paths, which goes on to its next path.  An OSError
\* of exists() is no KeyboardInterrupt: it leaves main.
Walk ==
  /\ cli.pc = "loop"
  /\ cli.queue = <<>>
  /\ cli.next <= Len(cli.paths)
  /\ LET y == walk_paths(cli.paths[cli.next])
     IN  cli' = IF y.raised
                  THEN [cli EXCEPT !.pc = "exit", !.ended = "traceback", !.exit_code = 1]
                  ELSE [cli EXCEPT !.next = @ + 1,
                                   !.queue = y.yields,
                                   !.warnings = IF y.warning = <<>> THEN @
                                                ELSE Append(@, y.warning)]
  /\ UNCHANGED <<magic, pc, world, result, stages, io, previous, inflight>>

\* One turn of the file loop.
ProcessFile ==
  /\ cli.pc = "loop"
  /\ cli.queue # <<>>
  /\ \E display_fails \in BOOLEAN :
       cli' = loop_body([cli EXCEPT !.queue = Tail(@)], magic, Head(cli.queue),
                        display_fails)
  /\ UNCHANGED <<magic, pc, world, result, stages, io, previous, inflight>>

\* KeyboardInterrupt in the loop: sys.exit(1).
Interrupt ==
  /\ cli.pc = "loop"
  /\ cli' = [cli EXCEPT !.pc = "exit", !.ended = "interrupted", !.exit_code = 1]
  /\ UNCHANGED <<magic, pc, world, result, stages, io, previous, inflight>>

\* The walk is exhausted: main returns.
Finish ==
  /\ cli.pc = "loop"
  /\ cli.queue = <<>>
  /\ cli.next > Len(cli.paths)
  /\ cli' = [cli EXCEPT !.pc = "exit", !.ended = "returned", !.exit_code = 0]
  /\ UNCHANGED <<magic, pc, world, result, stages, io, previous, inflight>>

NextCli ==
  \/ Construct
  \/ Main
  \/ Walk
  \/ ProcessFile
  \/ Interrupt
  \/ Finish

SpecCli == Init /\ [][NextCli]_vars

TypeOK ==
  /\ magic \in {"unset", "none", "Magic"}
  /\ pc \in {"new", "idle", "FILESYSTEM", "MAGIC", "LANGUAGE", "DEFAULT", "done", "raised"}
  /\ pc = "done" => result \notin {NoResult, Raised}

-----------------------------------------------------------------------------
(* The claims.                                                             *)

\* The call is over, by a return or by an exception.
Over == pc \in {"done", "raised"}

\* stat and lstat answered for an existing entry: what the filesystem stage
\* sees of the file is what the file is.
Observed ==
  /\ world.status = "present"
  /\ "stat" \notin world.faults
  /\ "lstat" \notin world.faults

\* A non-empty regular file that is not a symbolic link.
RegularNonEmpty ==
  Observed /\ ~world.isdir /\ ~world.islink /\ st_size(world) > 0

StageOrder == <<"FILESYSTEM", "MAGIC", "LANGUAGE", "DEFAULT">>

\* C1: for an existing path the stages run in the order filesystem, signature,
\* content, default, each at most once and none after a stage that gave a
\* result; the call returns the result of the last stage it ran; the signature
\* service is not called and the content is not read after a filesystem
\* result, and the content is not read after a signature result.
C1_StagesInOrder ==
  /\ Len(stages) <= Len(StageOrder)
  /\ \A i \in 1..Len(stages) : stages[i][1] = StageOrder[i]
  /\ \A i \in 1..(Len(stages) - 1) : stages[i][2] = NoResult
  /\ (pc = "done" /\ world.status = "present") =>
       /\ stages # <<>>
       /\ stages[Len(stages)][2] \notin {NoResult, Raised}
       /\ result = stages[Len(stages)][2]
  /\ (Len(stages) >= 1 /\ stages[1][2] # NoResult) =>
       \A k \in 1..Len(io) : io[k] \notin {"from_file", "read"}
  /\ (Len(stages) >= 2 /\ stages[2][2] # NoResult) =>
       \A k \in 1..Len(io) : io[k] # "read"

\* C1's case: the signature stage gave the result after the filesystem stage
\* gave none, and the content was never read.
C1_Witness ==
  /\ pc = "done"
  /\ Len(stages) = 2
  /\ stages[1][2] = NoResult
  /\ result = stages[2][2]
  /\ result.test_type = "MAGIC"
  /\ \A k \in 1..Len(io) : io[k] # "read"

\* C2: detect_file_type never ends by raising an exception, whatever fails.
C2_NeverRaises == pc # "raised"

\* The score _language_tests reached for the category of a pattern-scoring
\* result.
ScoreOf(r, hits) ==
  LET i == CHOOSE k \in 1..Len(LanguagePatterns) : LanguagePatterns[k][1] = r.file_type
  IN  sum_weights(LanguagePatterns[i][2], hits, 1)

FromPatterns(r) == r.details # NoDetails /\ r.details[1] = "Language patterns: "

\* C3: every result a stage or the fallback gives, and so every result
\* returned, has a confidence above 0 and at most 1.0 (10 tenths); a
\* pattern-scoring result has score >= 3 and confidence min(score/10, 1.0).
C3_ConfidenceInRange ==
  /\ \A i \in 1..Len(stages) :
       stages[i][2] \notin {NoResult, Raised} =>
         /\ stages[i][2].confidence > 0
         /\ stages[i][2].confidence <= 10
         /\ FromPatterns(stages[i][2]) =>
              LET score == ScoreOf(stages[i][2], world.content.hits)
              IN  /\ score >= 3
                  /\ (score <= 10 => stages[i][2].confidence = score)
                  /\ (score > 10 => stages[i][2].confidence = 10)
  /\ pc = "done" => result.confidence > 0 /\ result.confidence <= 10

\* C3's case: a pattern-scoring result whose score is above 10.
C3_Witness ==
  /\ pc = "done"
  /\ FromPatterns(result)
  /\ ScoreOf(result, world.content.hits) > 10
  /\ result.confidence = 10

\* C4: a non-empty regular file, not a symbolic link, whose lower-cased final
\* suffix is a key of the extension table gets the category of that suffix,
\* stage FILESYSTEM, confidence 0.8, whatever its other suffixes, its content
\* and the signature service.
C4_FinalSuffixCategory ==
  (pc = "done" /\ RegularNonEmpty /\ lower(suffix(world.name)) \in extension_keys) =>
    /\ result.file_type = extension_map(lower(suffix(world.name)))
    /\ result.test_type = "FILESYSTEM"
    /\ result.confidence = 8

\* C4's case: the compound-suffix rule matched (the explanation is not the
\* final suffix) and the category is still the final suffix's, for a file
\* written in upper case.
C4_Witness ==
  /\ pc = "done"
  /\ RegularNonEmpty
  /\ lower(suffix(world.name)) \in extension_keys
  /\ suffix(world.name) # lower(suffix(world.name)) \/ Len(suffixes(world.name)) > 1
  /\ result.details # <<"Extension: ", lower(suffix(world.name))>>
  /\ result.file_type = extension_map(lower(suffix(world.name)))

\* The suffix string the claim's lookup order finds for a list of suffixes:
\* all of them joined, then the last two joined, then the last one.
C5_Matched(name) ==
  LET sfxs == suffixes(name)
      all == lower(join(sfxs))
      two == lower(sfxs[Len(sfxs) - 1] \o sfxs[Len(sfxs)])
      one == lower(sfxs[Len(sfxs)])
  IN  IF all \in extension_keys THEN all
      ELSE IF two \in extension_keys THEN two
      ELSE IF one \in extension_keys THEN one
      ELSE <<>>

\* C5: for a non-empty regular file with two or more suffixes the table is
\* asked for all suffixes joined, then the last two, then the last one; the
\* first key found gives the category, confidence 0.8 and the explanation
\* "Extension: " followed by exactly that key.
C5_CompoundFirst ==
  (pc = "done" /\ RegularNonEmpty /\ Len(suffixes(world.name)) >= 2
     /\ C5_Matched(world.name) # <<>>) =>
    result = DetectionResult(world.name, extension_map(C5_Matched(world.name)),
                             "FILESYSTEM", 8,
                             <<"Extension: ", C5_Matched(world.name)>>)

\* C5's case: three suffixes, which joined are no key, whose last two are
\* .tar.gz: GZIP, explained by .tar.gz and not by .gz.
C5_Witness ==
  /\ pc = "done"
  /\ RegularNonEmpty
  /\ Len(suffixes(world.name)) = 3
  /\ lower(join(suffixes(world.name))) \notin extension_keys
  /\ result.file_type = "GZIP"
  /\ result.details = <<"Extension: ", <<".","t","a","r",".","g","z">> >>

\* C6: a path whose stat reports a directory is DIRECTORY, FILESYSTEM, 1.0,
\* whatever its name, its permission bits and whether it is a symbolic link;
\* no other rule of the stage is consulted before (is_symlink is not called).
C6_Directory ==
  (Over /\ world.status = "present" /\ "stat" \notin world.faults /\ world.isdir) =>
    /\ pc = "done"
    /\ result = DetectionResult(world.name, "DIRECTORY", "FILESYSTEM", 10, NoDetails)
    /\ io = <<"stat", "stat">>

\* C6's case: a symbolic link to a directory, with the executable bit and a
\* suffix the extension table knows.
C6_Witness ==
  /\ pc = "done"
  /\ world.isdir /\ world.islink /\ world.xbit
  /\ lower(suffix(world.name)) \in extension_keys
  /\ result.file_type = "DIRECTORY"

\* C7: a zero-length regular file that is not a symbolic link is EMPTY,
\* FILESYSTEM, 1.0, whatever its suffixes and permission bits; no extension
\* rule applies, the signature service is not called and no content is read.
C7_Empty ==
  (Over /\ Observed /\ ~world.isdir /\ ~world.islink /\ st_size(world) = 0) =>
    /\ pc = "done"
    /\ result = DetectionResult(world.name, "EMPTY", "FILESYSTEM", 10, NoDetails)
    /\ Len(stages) = 1
    /\ \A k \in 1..Len(io) : io[k] \notin {"from_file", "read"}

\* C7's case: an empty executable file with a compound suffix of the table.
C7_Witness ==
  /\ pc = "done"
  /\ Observed /\ ~world.isdir /\ ~world.islink /\ st_size(world) = 0
  /\ world.xbit
  /\ Len(suffixes(world.name)) > 1
  /\ lower(join(suffixes(world.name))) \in extension_keys
  /\ result.file_type = "EMPTY"

\* C8: for a path that does not exist the call returns UNKNOWN, FILESYSTEM,
\* 1.0, "File not found"; no stage and no fallback runs and nothing is raised.
C8_NotFound ==
  world.status = "absent" =>
    /\ pc = "done"
    /\ result = DetectionResult(world.name, "UNKNOWN", "FILESYSTEM", 10,
                                <<"File not found">>)
    /\ stages = <<>>
    /\ io = <<"stat">>

\* C8's case: the call for a missing path is over.
C8_Witness ==
  /\ world.status = "absent"
  /\ pc = "done"
  /\ result.file_type = "UNKNOWN"
  /\ result.details = <<"File not found">>

\* The priority list as the claim writes it.
C9_Priority ==
  << <<"p","d","f">>, <<"j","p","e","g">>, <<"p","n","g">>, <<"g","i","f">>,
     <<"z","i","p">>, <<"g","z","i","p">>, <<"t","a","r">>, <<"r","a","r">>,
     <<"e","l","f">>, <<"p","e","3","2">>, <<"m","a","c","h","-","o">>,
     <<"m","p","3">>, <<"m","p","4">>, <<"a","v","i">>, <<"w","a","v">>,
     <<"h","t","m","l">>, <<"x","m","l">>, <<"j","s","o","n">> >>

\* The signature stage was reached and the service answered.
C9_Answered ==
  /\ Len(stages) >= 2
  /\ magic = "Magic"
  /\ "from_file" \notin world.faults

\* C9: when the service answers, the stage's category, confidence and stage
\* tag are decided by the lower-cased description alone: the first substring
\* of the priority list that occurs in it gives its category at 0.9; else
\* "text" gives TEXT at 0.6; else "binary", "data" or "executable" gives
\* BINARY at 0.7; else there is no result.  Every result is tagged MAGIC.
C9_SignatureMapping ==
  /\ Len(C9_Priority) = Len(magic_mappings)
  /\ \A i \in 1..Len(C9_Priority) : C9_Priority[i] = magic_mappings[i][1]
  /\ C9_Answered =>
       LET d == lower(world.desc)
           r == stages[2][2]
           found == {i \in 1..Len(C9_Priority) : contains(C9_Priority[i], d)}
           first == CHOOSE i \in found : \A j \in found : i <= j
       IN  IF found # {}
             THEN /\ r # NoResult
                  /\ r.file_type = magic_mappings[first][2]
                  /\ r.confidence = 9
                  /\ r.test_type = "MAGIC"
           ELSE IF contains(<<"t","e","x","t">>, d)
             THEN r # NoResult /\ r.file_type = "TEXT" /\ r.confidence = 6
                  /\ r.test_type = "MAGIC"
           ELSE IF \/ contains(<<"b","i","n","a","r","y">>, d)
                   \/ contains(<<"d","a","t","a">>, d)
                   \/ contains(<<"e","x","e","c","u","t","a","b","l","e">>, d)
             THEN r # NoResult /\ r.file_type = "BINARY" /\ r.confidence = 7
                  /\ r.test_type = "MAGIC"
           ELSE r = NoResult

\* C9's case: a description written in upper case that holds two substrings of
\* the list, the later one in the list coming first in the description.
C9_Witness ==
  /\ C9_Answered
  /\ pc = "done"
  /\ world.desc = <<"J","S","O","N"," ","P","D","F">>
  /\ result.file_type = "PDF"
  /\ result.confidence = 9

\* What detect_file_type returns for an existing path when there is no
\* signature service at all.
C10_WithoutService(w) ==
  IF filesystem_tests(w) # NoResult THEN filesystem_tests(w)
  ELSE IF language_tests(w) # NoResult THEN language_tests(w)
  ELSE fallback(w)

\* C10: with no service handle, or with a service call that raises, the
\* signature stage gives no result, nothing is raised by it, the content stage
\* runs next, and the call returns what it returns with no service at all.
C10_ServiceFailureSkipped ==
  (world.status = "present" /\ (magic = "none" \/ "from_file" \in world.faults)) =>
    /\ Len(stages) >= 2 => stages[2][2] = NoResult
    /\ (pc = "done" /\ Len(stages) >= 2) => Len(stages) >= 3
    /\ pc = "done" => result = C10_WithoutService(world)

\* C10's case: the service has a handle and raises on a description it would
\* have classified; the content stage gives the result.
C10_Witness ==
  /\ pc = "done"
  /\ magic = "Magic"
  /\ "from_file" \in world.faults
  /\ world.desc = DataDesc
  /\ classify_description(world.name, world.desc) # NoResult
  /\ Len(stages) = 3
  /\ result.test_type = "LANGUAGE"

\* C11: a stage whose stat or read of the file fails gives no result and the
\* call goes on to the following stage or to the fallback: the filesystem
\* stage when its stat fails, and the content stage, rather than naming a
\* category, when it cannot read the file's bytes.
C11_UnreadableNoResult ==
  /\ (Len(stages) >= 1 /\ "stat" \in world.faults) => stages[1][2] = NoResult
  /\ (Len(stages) >= 3 /\ read_fails(world)) =>
       /\ stages[3][2] = NoResult
       /\ pc # "done" \/ Len(stages) = 4

\* The entries of the shebang table whose interpreter occurs in a line.
C12_Found(line) ==
  {i \in 1..Len(ShebangEntries) : contains(ShebangEntries[i][1], line)}

\* A non-empty regular file with no recognized extension whose first line is
\* a shebang line naming an interpreter of the table, in a call where nothing
\* fails.
C12_Script ==
  /\ RegularNonEmpty
  /\ world.faults = {}
  /\ lower(suffix(world.name)) \notin extension_keys
  /\ startswith(world.content.first_line, <<"#","!">>)
  /\ C12_Found(world.content.first_line) # {}

\* C12: such a file is returned with the category of the first entry of the
\* shebang table, in table order, whose interpreter occurs in the first line,
\* stage LANGUAGE, confidence 0.9 and the explanation "Shebang: " followed by
\* the line, whatever patterns its text holds.
C12_ShebangWins ==
  (pc = "done" /\ C12_Script) =>
    LET line == world.content.first_line
        first == CHOOSE i \in C12_Found(line) : \A j \in C12_Found(line) : i <= j
    IN  result = DetectionResult(world.name, ShebangEntries[first][2], "LANGUAGE", 9,
                                 <<"Shebang: ", line>>)

\* The catalog order as the claim writes it.
C13_Order == <<"PYTHON", "JAVASCRIPT", "JAVA", "C", "CPP", "HTML", "CSS">>

\* The patterns of category i that match: the entries of its pattern set whose
\* expression is among the expressions found in the text.
C13_Matching(i, hits) ==
  {j \in 1..Len(LanguagePatterns[i][2]) : LanguagePatterns[i][2][j][1] \in hits}

RECURSIVE C13_Sum(_, _)
\* The sum of the weights of the entries js of category i.
C13_Sum(i, js) ==
  IF js = {} THEN 0
  ELSE LET j == CHOOSE k \in js : TRUE
       IN  LanguagePatterns[i][2][j][2] + C13_Sum(i, js \ {j})

C13_Score(i, hits) == C13_Sum(i, C13_Matching(i, hits))

\* The content stage read the text and its shebang check gave nothing.
C13_Scored ==
  /\ Len(stages) >= 3
  /\ ~read_fails(world)
  /\ ~(/\ startswith(world.content.first_line, <<"#","!">>)
       /\ C12_Found(world.content.first_line) # {})

\* C13: the catalog is in the order Python, JavaScript, Java, C, C++, HTML,
\* CSS; pattern scoring returns the first category in that order whose score,
\* the sum of the weights of its matching patterns, is at least 3, with
\* confidence min(score/10, 1.0) and an explanation giving the number of its
\* matching patterns; when no category reaches 3, pattern scoring returns
\* nothing.
C13_FirstPastThreshold ==
  /\ Len(C13_Order) = Len(LanguagePatterns)
  /\ \A i \in 1..Len(C13_Order) : LanguagePatterns[i][1] = C13_Order[i]
  /\ C13_Scored =>
       LET hits == world.content.hits
           r == stages[3][2]
           passing == {i \in 1..Len(C13_Order) : C13_Score(i, hits) >= 3}
           first == CHOOSE i \in passing : \A j \in passing : i <= j
           score == C13_Score(first, hits)
       IN  IF passing # {}
             THEN r = DetectionResult(world.name, C13_Order[first], "LANGUAGE",
                                      IF score < 10 THEN score ELSE 10,
                                      <<"Language patterns: ",
                                        Cardinality(C13_Matching(first, hits)),
                                        " matches">>)
             ELSE r = NoResult \/ ~FromPatterns(r)

\* C13's case: the category returned has a score of 3 and a later category of
\* the catalog has a higher score.
C13_Witness ==
  /\ pc = "done"
  /\ C13_Scored
  /\ FromPatterns(result)
  /\ C13_Score(1, world.content.hits) = 3
  /\ result.file_type = "PYTHON"
  /\ result.confidence = 3
  /\ \E i \in 2..Len(C13_Order) : C13_Score(i, world.content.hits) > 3

\* A non-empty regular file with no extension and no shebang whose whole
\* content is print('hi'), in a call where nothing fails.
C14_PrintHi ==
  /\ RegularNonEmpty
  /\ world.faults = {}
  /\ suffix(world.name) = <<>>
  /\ world.content = PrintHiContent

C15_Reached ==
  /\ C13_Scored
  /\ \A i \in 1..Len(C13_Order) : C13_Score(i, world.content.hits) < 3
  /\ world.content.nchars > 0

\* What the claim's precedence gives once the JSON case is settled: YAML, else
\* CSV, else TEXT.
C15_AfterJson(w) ==
  IF w.content.yaml
    THEN DetectionResult(w.name, "YAML", "LANGUAGE", 7, <<"YAML-like structure">>)
  ELSE IF w.content.csv
    THEN DetectionResult(w.name, "CSV", "LANGUAGE", 7, <<"CSV-like structure">>)
  ELSE DetectionResult(w.name, "TEXT", "LANGUAGE", 6, NoDetails)

C15_Json(w) ==
  DetectionResult(w.name, "JSON", "LANGUAGE", 8, <<"Valid JSON structure">>)

\* C15: when neither the shebang check nor pattern scoring gives a result, a
\* text whose printable ratio is at most 0.7 gets no result from the content
\* stage, and a text whose ratio is above 0.7 gets JSON at 0.8 if it is a
\* well-formed JSON object in braces, else YAML at 0.7 if a line starts with
\* "identifier:", else CSV at 0.7 if it is comma-separated, else TEXT at 0.6.
\* (A text in braces on which the JSON parser gives up with an error of its
\* own may or may not be well formed: the claim then allows JSON and the
\* result of the later checks, and in either reading requires a result.)
C15_GenericText ==
  C15_Reached =>
    LET c == world.content
        r == stages[3][2]
    IN  IF 10 * c.nprintable <= 7 * c.nchars THEN r = NoResult
        ELSE IF c.json = "valid" THEN r = C15_Json(world)
        ELSE IF c.json = "error" THEN r \in {C15_Json(world), C15_AfterJson(world)}
        ELSE r = C15_AfterJson(world)

\* The number of times the call read the file's bytes.
C16_Reads == Cardinality({k \in 1..Len(io) : io[k] = "read"})

\* None of the three stages gave a result for a non-empty regular file, and
\* the fallback has run.
C16_FellThrough ==
  /\ pc = "done"
  /\ Len(stages) = 4
  /\ ~world.isdir
  /\ st_size(world) > 0

\* What the claim's rule gives on the fallback's sample: BINARY at 0.8 for a
\* null byte or for fewer than 70% printable bytes, else UNKNOWN at 0.1.
C16_Decision(w) ==
  IF w.content.sample_nulls > 0
     \/ 10 * w.content.sample_printable < 7 * w.content.sample_len
    THEN DetectionResult(w.name, "BINARY", "LANGUAGE", 8, <<"Binary content detected">>)
    ELSE DetectionResult(w.name, "UNKNOWN", "FILESYSTEM", 1, NoDetails)

\* C16 as stated: the fallback returns BINARY at 0.8 with "Binary content
\* detected" for a null byte or fewer than 70% printable bytes and UNKNOWN at
\* 0.1 otherwise, deciding on the bytes the content stage analysed: it reads
\* no bytes of its own, so the call has read the file once.
C16_DecidedOnSameSample ==
  (C16_FellThrough /\ "sample" \notin world.faults) =>
    /\ result = C16_Decision(world)
    /\ C16_Reads = 1

\* C16 as amended: the fallback opens the file again and decides on the first
\* 512 bytes it reads then, a second read after the content stage's; when
\* that read fails the result is UNKNOWN at 0.1.
C16_DecidedOnOwnSample ==
  C16_FellThrough =>
    IF "sample" \in world.faults
      THEN /\ result = DetectionResult(world.name, "UNKNOWN", "FILESYSTEM", 1, NoDetails)
           /\ C16_Reads = 1
      ELSE /\ result = C16_Decision(world)
           /\ C16_Reads = 2
           /\ io[Len(io)] = "read"

\* C16's case: the text the content stage analysed has no printable character,
\* the fallback's own sample is 80% printable with no null byte, and the
\* result is UNKNOWN.
C16_Witness ==
  /\ C16_FellThrough
  /\ world.faults = {}
  /\ world.content.nprintable = 0
  /\ world.content.sample_printable = 8
  /\ world.content.sample_nulls = 0
  /\ result.file_type = "UNKNOWN"
  /\ result.confidence = 1

\* A non-empty file, in a call where nothing fails, that got no filesystem and
\* no signature result.
C17_PassedOn ==
  /\ pc = "done"
  /\ Len(stages) >= 3
  /\ ~world.isdir
  /\ st_size(world) > 0
  /\ world.faults = {}

\* C17 as stated: such a file, when at most 70% of its bytes are printable
\* ASCII or tab, LF, CR (at least 30% are not, the boundary included), is
\* returned as BINARY.
C17_ThirtyPercentIsBinary ==
  (C17_PassedOn /\ 10 * world.content.sample_printable <= 7 * world.content.sample_len) =>
    result.file_type = "BINARY"

\* C17 as amended: a non-empty file that got no filesystem, signature or
\* content result is BINARY when strictly fewer than 70% of its first 512
\* bytes are printable ASCII or tab, LF, CR; at exactly 70%, with no null
\* byte, it is UNKNOWN at 0.1.
C17_BelowSeventyIsBinary ==
  (C17_PassedOn /\ Len(stages) = 4) =>
    LET c == world.content
    IN  /\ 10 * c.sample_printable < 7 * c.sample_len =>
             result.file_type = "BINARY" /\ result.confidence = 8
        /\ (10 * c.sample_printable = 7 * c.sample_len /\ c.sample_nulls = 0) =>
             result.file_type = "UNKNOWN" /\ result.confidence = 1

\* C17's case: exactly 70% of the bytes are printable, there is no null byte,
\* the content stage found no text and the fallback returned UNKNOWN.
C17_Witness ==
  /\ C17_PassedOn
  /\ Len(stages) = 4
  /\ world.content.sample_printable = 7
  /\ world.content.sample_len = 10
  /\ world.content.sample_nulls = 0
  /\ result.file_type = "UNKNOWN"

C19_Alone(m, w) ==
  IF w.status = "inaccessible" THEN Raised
  ELSE IF w.status = "absent" THEN not_found(w)
  ELSE IF filesystem_tests(w) # NoResult THEN filesystem_tests(w)
  ELSE IF magic_tests(m, w) # NoResult THEN magic_tests(m, w)
  ELSE IF language_tests(w) # NoResult THEN language_tests(w)
  ELSE fallback(w)

\* The calls of the threads that are over gave what they give alone.
C19_AsAlone ==
  \A t \in Threads :
    /\ inflight[t].pc = "done" =>
         inflight[t].result = C19_Alone(magic, inflight[t].world)
    /\ inflight[t].pc = "raised" =>
         C19_Alone(magic, inflight[t].world) = Raised

C20_Count(kinds) == Cardinality({k \in 1..Len(io) : io[k] \in kinds})

\* C20 as stated: a call makes at most one metadata stat of the path, at most
\* one read of the file's bytes and at most one call into the signature
\* service.
C20_OneOfEach ==
  /\ C20_Count({"stat", "lstat"}) <= 1
  /\ C20_Count({"read"}) <= 1
  /\ C20_Count({"from_file"}) <= 1

\* C20 as amended: a call makes at most one call into the signature service,
\* at most two reads of the file's bytes, the second one only in the final
\* fallback, and at most six metadata lookups of the path: exists(), the
\* filesystem stage's stat() and is_symlink(), the content stage's stat(), and
\* is_file() and stat() in the fallback; a path that exists is looked up at
\* least twice.
C20_BoundedCalls ==
  /\ C20_Count({"from_file"}) <= 1
  /\ C20_Count({"read"}) <= 2
  /\ C20_Count({"read"}) = 2 => Len(stages) = 4
  /\ C20_Count({"stat", "lstat"}) <= 6
  /\ C20_Count({"lstat"}) <= 1
  /\ (Len(stages) >= 1 /\ world.status = "present") => C20_Count({"stat", "lstat"}) >= 2

\* C20's case: a call that went through to the fallback with six lookups, two
\* reads and one service call.
C20_Witness ==
  /\ pc = "done"
  /\ Len(stages) = 4
  /\ C20_Count({"stat", "lstat"}) = 6
  /\ C20_Count({"read"}) = 2
  /\ C20_Count({"from_file"}) = 1


-----------------------------------------------------------------------------
(* The command line: --test-type.                                          *)

\* The stage whose DetectionMethod value is the option's.
C21_Stage == CHOOSE s \in DOMAIN DetectionMethod : DetectionMethod[s] = cli.test_type

\* The full pipeline gave the file of line l a result of another stage.
C21_OtherStage(l) ==
  LET full == detect_file_type(magic, l.world)
  IN  full # Raised /\ full.test_type # C21_Stage

\* C21: with --test-type T, T one of filesystem, magic and language, every
\* displayed result carries stage T; a file whose full-pipeline result has
\* another stage is displayed with the result stage T alone gives for it, and
\* is not displayed when stage T alone gives none.
C21_OnlyStageT ==
  cli.test_type # "all" =>
    \A i \in 1..Len(cli.log) :
      LET l == cli.log[i]
          alone == stage_result(C21_Stage, magic, l.world)
      IN  /\ l.outcome = "displayed" => l.result.test_type = C21_Stage
          /\ l.outcome = "displayed" /\ C21_OtherStage(l) => l.result = alone
          /\ C21_OtherStage(l) /\ alone = NoResult => l.outcome # "displayed"

\* A run with --test-type that displayed a file after running stage T alone
\* and skipped another for which stage T gave nothing.
C21_Witness ==
  /\ cli.test_type # "all"
  /\ \E i \in 1..Len(cli.log) :
       cli.log[i].outcome = "displayed" /\ C21_OtherStage(cli.log[i])
  /\ \E i \in 1..Len(cli.log) :
       cli.log[i].outcome = "test-type" /\ C21_OtherStage(cli.log[i])


-----------------------------------------------------------------------------
(* The command line: --include-directories.                                *)

\* Some line of the record displays the path as a directory.
C22_ShownAsDirectory(path) ==
  \E i \in 1..Len(cli.log) :
    /\ cli.log[i].path = path
    /\ cli.log[i].outcome = "displayed"
    /\ cli.log[i].result.file_type = "DIRECTORY"

\* C22: without --include-directories no DIRECTORY result is displayed; with
\* it, and no other filter, a run that came to its end without an error has
\* displayed every directory found inside each directory tree it analysed as
\* a DIRECTORY result.
C22_DirectoriesExactlyOnRequest ==
  /\ ~cli.include_directories =>
       \A i \in 1..Len(cli.log) :
         cli.log[i].outcome = "displayed" => cli.log[i].result.file_type # "DIRECTORY"
  /\ ( /\ cli.include_directories
       /\ cli.ended = "returned"
       /\ cli.errors = 0
       /\ cli.test_type = "all" /\ cli.filter_type = {} /\ cli.max_depth = <<>> ) =>
       \A k \in 1..Len(cli.paths) :
         LET e == cli.paths[k]
         IN  e.kind = "dir" /\ ~e.denied =>
               \A j \in 1..Len(e.below) :
                 ~e.below[j].isfile => C22_ShownAsDirectory(e.path \o e.below[j].rel)


-----------------------------------------------------------------------------
(* The command line: failures.                                             *)

\* The number of files walk_paths yields for the first k paths of the run.
RECURSIVE C23_Yielded(_)
C23_Yielded(k) ==
  IF k = 0 THEN 0
  ELSE C23_Yielded(k - 1) + Len(walk_paths(cli.paths[k]).yields)

\* C23: a failure on one path never aborts the run.  No run ends in an
\* exception that leaves main; a run that is not interrupted goes through
\* every path, leaves a warning for each path that does not exist or cannot
\* be traversed, a line of its record for each file of the others, an error
\* count for each failed file, and ends with exit code 0.
C23_FailureNeverAborts ==
  /\ cli.ended # "traceback"
  /\ cli.ended = "returned" =>
       /\ cli.exit_code = 0
       /\ cli.next = Len(cli.paths) + 1
       /\ \A k \in 1..Len(cli.paths) :
            cli.paths[k].kind \in {"missing", "unresolvable"} \/ cli.paths[k].denied =>
              \E i \in 1..Len(cli.warnings) : cli.warnings[i][2] = cli.paths[k].path
       /\ Len(cli.log) = C23_Yielded(Len(cli.paths))
       /\ cli.errors = Cardinality({ i \in 1..Len(cli.log) : cli.log[i].outcome = "error" })


-----------------------------------------------------------------------------
(* The command line: --max-depth.                                          *)

\* The directory levels between a directory given on the command line and a
\* file rglob finds below it at rel: none for a file of the directory itself.
C24_Levels(rel) == Len(rel) - 1

\* C24: with --max-depth N no displayed file lies more than N directory
\* levels below the directory given on the command line, wherever that
\* directory is with respect to the current working directory.
C24_DepthRespected ==
  cli.max_depth # <<>> =>
    \A i \in 1..Len(cli.log), k \in 1..Len(cli.paths) :
      LET l == cli.log[i]
          e == cli.paths[k]
      IN  l.outcome = "displayed" /\ e.kind = "dir" =>
            \A j \in 1..Len(e.below) :
              e.below[j].isfile /\ l.path = e.path \o e.below[j].rel =>
                C24_Levels(e.below[j].rel) <= cli.max_depth[1]


-----------------------------------------------------------------------------
(* The signature stage: 'zip' before 'gzip'.                               *)

\* The substrings that come before 'zip' in the priority order.
C25_BeforeZip == { <<"p","d","f">>, <<"j","p","e","g">>, <<"p","n","g">>, <<"g","i","f">> }

\* The service answered with a description that contains 'gzip'.
C25_Gzip ==
  /\ C9_Answered
  /\ contains(<<"g","z","i","p">>, lower(world.desc))

\* No stage but the filesystem stage has given GZIP.
C25_GzipFromFilesystemOnly ==
  \A i \in 1..Len(stages) :
    stages[i][2] \notin {NoResult, Raised} /\ stages[i][2].file_type = "GZIP" =>
      stages[i][1] = "FILESYSTEM"

\* C25 as claimed: the signature stage classifies every description that
\* contains 'gzip' as ZIP and never returns GZIP; GZIP comes from the
\* filesystem stage only.
C25_EveryGzipIsZip ==
  /\ C25_Gzip => stages[2][2] # NoResult /\ stages[2][2].file_type = "ZIP"
  /\ C25_GzipFromFilesystemOnly

\* C25, amended: the signature stage never returns GZIP; a description that
\* contains 'gzip' is classified ZIP unless it also contains 'pdf', 'jpeg',
\* 'png' or 'gif', and then it gets the category of the first of these in
\* the priority order; GZIP comes from the filesystem stage only.
C25_GzipIsZipUnlessEarlier ==
  /\ C25_Gzip =>
       LET d == lower(world.desc)
           r == stages[2][2]
       IN  /\ r # NoResult
           /\ r.file_type # "GZIP"
           /\ (\A sub \in C25_BeforeZip : ~contains(sub, d)) => r.file_type = "ZIP"
           /\ (\E sub \in C25_BeforeZip : contains(sub, d)) =>
                \E k \in 1..Len(magic_mappings) :
                  /\ magic_mappings[k][1] \in C25_BeforeZip
                  /\ contains(magic_mappings[k][1], d)
                  /\ \A j \in 1..(k - 1) : ~contains(magic_mappings[j][1], d)
                  /\ r.file_type = magic_mappings[k][2]
  /\ C25_GzipFromFilesystemOnly

\* A call the signature stage ended with ZIP for a description that contains
\* 'gzip' and a later substring of the priority order.
C25_Witness ==
  /\ C25_Gzip
  /\ contains(<<"t","a","r">>, lower(world.desc))
  /\ pc = "done"
  /\ result.file_type = "ZIP"
  /\ result.test_type = "MAGIC"


-----------------------------------------------------------------------------
(* The filesystem stage: the executable rule.                              *)

\* No result of the call is the executable rule's: none has the explanation
\* 'Executable file', none of stage FILESYSTEM has confidence 0.9.
C26_NoExecutableResult ==
  /\ \A sfx \in executable_suffixes : sfx \notin extension_keys
  /\ \A r \in {stages[i][2] : i \in 1..Len(stages)} \cup {result} :
       r \notin {NoResult, Raised} =>
         /\ r.details # <<"Executable file">>
         /\ r.test_type = "FILESYSTEM" => r.confidence # 9

\* The file has the owner-executable bit and one of the rule's suffixes.
C26_ExecutableSuffix ==
  /\ Len(stages) >= 1
  /\ Observed
  /\ ~world.isdir
  /\ world.xbit
  /\ lower(suffix(world.name)) \in executable_suffixes

\* C26 as claimed: the executable rule never fires, and an executable file
\* with one of its suffixes gets no result from the filesystem stage.
C26_ExecutableGetsNothing ==
  /\ C26_NoExecutableResult
  /\ C26_ExecutableSuffix => stages[1][2] \in {NoResult, Raised}

\* C26, amended: the executable rule never fires, and a non-empty executable
\* file that is not a symbolic link and has one of the rule's suffixes gets
\* no result from the filesystem stage.
C26_NonEmptyExecutableGetsNothing ==
  /\ C26_NoExecutableResult
  /\ C26_ExecutableSuffix /\ RegularNonEmpty => stages[1][2] = NoResult

\* A call on a non-empty executable a.so that the filesystem stage passed on.
C26_Witness ==
  /\ C26_ExecutableSuffix
  /\ RegularNonEmpty
  /\ pc = "done"
  /\ stages[1][2] = NoResult


-----------------------------------------------------------------------------
(* Symbolic links.                                                         *)

\* The call returned, and stat and lstat answered: the target was found and
\* examined, or there is nothing at the path (for a link: no target).
C27_Settled ==
  /\ pc = "done"
  /\ world.status = "absent" \/ Observed

\* C27: detect_file_type returns SYMLINK exactly when the path is a symbolic
\* link whose target exists and is not a directory.  A dangling link is
\* UNKNOWN 'File not found', a link to a directory DIRECTORY, a link to an
\* empty file or to one with a suffix of the table SYMLINK.
C27_SymlinkExactly ==
  C27_Settled =>
    /\ result.file_type = "SYMLINK" <=>
         world.islink /\ world.status = "present" /\ ~world.isdir
    /\ world.islink /\ world.status = "absent" =>
         /\ result.file_type = "UNKNOWN"
         /\ result.details = <<"File not found">>
    /\ world.islink /\ world.status = "present" /\ world.isdir =>
         result.file_type = "DIRECTORY"

\* A call on an executable link to an empty file whose name has a suffix of
\* the table, which returned SYMLINK.
C27_Witness ==
  /\ C27_Settled
  /\ world.islink /\ world.status = "present" /\ ~world.isdir
  /\ st_size(world) = 0
  /\ lower(suffix(world.name)) \in extension_keys
  /\ result.file_type = "SYMLINK"


-----------------------------------------------------------------------------
(* The content sampler: decoding.                                          *)

\* C28: the content sampler gives None only when stat, open or read fails.
\* Whatever the bytes of a file that is read, a text is returned, it is never
\* the fourth encoding (cp1252) that gives it, and the content stage does not
\* answer BINARY 'Non-text content'.
C28_UndecodableOnlyOnOSError ==
  Len(stages) >= 3 =>
    LET text == read_file_safely(world)
        r == stages[3][2]
    IN  /\ text = NoText <=> read_fails(world)
        /\ text # <<encodings[4]>>
        /\ ~read_fails(world) =>
             ~(r # NoResult /\ r.details = <<"Non-text content">>)

\* A call whose content stage read bytes that neither UTF-8 nor cp1252
\* decodes: latin-1 gave the text.
C28_Witness ==
  /\ Len(stages) >= 3
  /\ pc = "done"
  /\ ~read_fails(world)
  /\ world.content.bytes = "undefined"
  /\ read_file_safely(world) = <<"latin-1">>


-----------------------------------------------------------------------------
(* Pattern scoring: patterns shared between categories.                    *)

\* The angle-bracket include pattern, as the catalog writes it for C.
C29_Include == LanguagePatterns[4][2][1][1]

\* The class-declaration pattern, as the catalog writes it for Python.
C29_Class == LanguagePatterns[1][2][4][1]

\* The two patterns are in the catalog with weight 3 for C and C++, and for
\* Python and C++, the earlier category coming first in the catalog.
C29_Shared ==
  /\ LanguagePatterns[1][1] = "PYTHON"
  /\ LanguagePatterns[4][1] = "C"
  /\ LanguagePatterns[5][1] = "CPP"
  /\ LanguagePatterns[4][2][1] = <<C29_Include, 3>>
  /\ LanguagePatterns[1][2][4] = <<C29_Class, 3>>
  /\ \E j \in 1..Len(LanguagePatterns[5][2]) : LanguagePatterns[5][2][j] = <<C29_Include, 3>>
  /\ \E j \in 1..Len(LanguagePatterns[5][2]) : LanguagePatterns[5][2][j] = <<C29_Class, 3>>

\* C29: pattern scoring returns C++ only for a text that matches neither the
\* angle-bracket include pattern nor the class-declaration pattern, and a
\* text that matches the include pattern and brings none of Python,
\* JavaScript and Java to the threshold is classified C.
C29_SharedPatternsShadowed ==
  /\ C29_Shared
  /\ C13_Scored =>
       LET hits == world.content.hits
           r == stages[3][2]
       IN  /\ (r # NoResult /\ r.file_type = "CPP") =>
                C29_Include \notin hits /\ C29_Class \notin hits
           /\ (C29_Include \in hits /\ \A i \in 1..3 : C13_Score(i, hits) < 3) =>
                r # NoResult /\ r.file_type = "C" /\ FromPatterns(r)

\* A text that matches the include pattern and another pattern of C++, so
\* that C++ scores higher than C, and that the call classified C.
C29_Witness ==
  /\ C13_Scored
  /\ pc = "done"
  /\ C29_Include \in world.content.hits
  /\ C13_Score(5, world.content.hits) > C13_Score(4, world.content.hits)
  /\ result.file_type = "C"


-----------------------------------------------------------------------------
(* The command line: the counters.                                         *)

\* The lines of the record of files displayed with a category other than
\* UNKNOWN.
C30_Identified ==
  { i \in 1..Len(cli.log) :
      /\ cli.log[i].outcome = "displayed"
      /\ cli.log[i].result.file_type # "UNKNOWN" }

\* C30: at every point of the file loop detected_files + errors is at most
\* total_files; total_files is the number of files the walk has yielded,
\* skipped ones included; detected_files is the number of files displayed
\* with a category other than UNKNOWN.
C30_Counters ==
  /\ cli.detected_files + cli.errors <= cli.total_files
  /\ cli.total_files = Len(cli.log)
  /\ cli.detected_files = Cardinality(C30_Identified)

=============================================================================
